---- MODULE Spec2Model ----
(***************************************************************************)
(* LevelSetPy: the HJI PDE driver HJIPDE_solve (ValueFuncs/hji_solver.py)  *)
(* and the Lax-Friedrichs term termLaxFriedrichs                           *)
(* (ExplicitIntegration/Term/term_lax_friedrich.py).                       *)
(*                                                                         *)
(* Numbers.  Cell values are integers.  Times are integers in units of     *)
(* 1e-4, the tolerance `small' of the driver.  The driver is modelled on   *)
(* one-dimensional grids (gDim = 1), where the flattened vector y and the  *)
(* grid-shaped arrays have the same index; termLaxFriedrichs is modelled   *)
(* on one- and two-dimensional grids with the row-major index map.         *)
(* Python indices are 0-based; a Python index k is position k + 1 of the   *)
(* TLA+ sequence that models the array.                                    *)
(***************************************************************************)
EXTENDS Integers, Sequences, FiniteSets, TLC

(***************************************************************************)
(* Bounds of the model.                                                    *)
(***************************************************************************)
MaxVal == 1
MaxN == 3
MaxTauLen == 3

Vals == (0 - MaxVal)..MaxVal
NaN == MaxVal + 1000
GridSizes == 2..MaxN
TauLens == 1..MaxTauLen
TauGaps == {1, 8}
StepBounds == {5, 10}

(***************************************************************************)
(* Program constants.                                                      *)
(***************************************************************************)
small == 1
factorCFLNum == 8
factorCFLDen == 10

(***************************************************************************)
(* Element-wise array operations (numpy) on flattened fields.              *)
(***************************************************************************)
Min2(a, b) == IF a <= b THEN a ELSE b
Max2(a, b) == IF a >= b THEN a ELSE b
Abs(a) == IF a >= 0 THEN a ELSE 0 - a

npMinimum(a, b) == [c \in 1..Len(a) |-> Min2(a[c], b[c])]
npMaximum(a, b) == [c \in 1..Len(a) |-> Max2(a[c], b[c])]
npNegative(a) == [c \in 1..Len(a) |-> 0 - a[c]]
npAddScalar(a, s) == [c \in 1..Len(a) |-> a[c] + s]
npMulScalar(a, s) == [c \in 1..Len(a) |-> a[c] * s]
npAnyIsNaNNever(a) == FALSE
npAnyIsNaN(a) == \E c \in 1..Len(a) : a[c] = NaN

RECURSIVE SeqMax(_)
SeqMax(s) == IF Len(s) = 1 THEN s[1] ELSE Max2(s[1], SeqMax(Tail(s)))

Zeros(n) == [c \in 1..n |-> 0]
Fields(n) == [1..n -> Vals]

(***************************************************************************)
(* Python values.  PyNone is None; PyAt reads a 0-based index.             *)
(***************************************************************************)
PyNone == "<None>"
PyAt(s, k) == s[k + 1]
PyTruthy(x) == x # 0

(***************************************************************************)
(* Inputs of HJIPDE_solve(data0, tau, schemeData, compMethod, extraArgs).  *)
(* An array argument is a record: present (the field exists in extraArgs), *)
(* ndim, and slices (one slice for an array of the grid's dimension, one   *)
(* slice per time index for an array with a leading time axis).            *)
(***************************************************************************)
gDim == 1

ConstField(n, v) == [c \in 1..n |-> v]
StepField(n) == [c \in 1..n |-> IF c = 1 THEN 0 - MaxVal ELSE MaxVal]
PeakField(n) == [c \in 1..n |-> IF c = 1 THEN MaxVal ELSE 0 - MaxVal]

NoArray == [present |-> FALSE, ndim |-> 0, slices |-> << >>]
StaticArray(f) == [present |-> TRUE, ndim |-> gDim, slices |-> <<f>>]
TimeArray(fs) == [present |-> TRUE, ndim |-> gDim + 1, slices |-> fs]
BadArray(f) == [present |-> TRUE, ndim |-> gDim + 2, slices |-> <<f>>]
AltSlices(n, len) ==
    [k \in 1..len |-> IF k % 2 = 1 THEN ConstField(n, 0) ELSE StepField(n)]

ObstacleInputs(n, len) ==
    {NoArray, StaticArray(ConstField(n, 0)), StaticArray(StepField(n)),
     TimeArray(AltSlices(n, len)), BadArray(ConstField(n, 0))}
TargetInputs(n, len) ==
    {NoArray, StaticArray(StepField(n)), TimeArray(AltSlices(n, len)),
     BadArray(ConstField(n, 0))}

\* discountFactor / discountMode fields of extraArgs.  discountFactor is
\* factor - gap / GapUnits: gap is 0 for the factors 0 and 1
GapUnits == 80000
NoDiscount ==
    [hasFactor |-> FALSE, factor |-> 0, gap |-> 0, hasMode |-> FALSE, mode |-> ""]
DiscountInputs ==
    {NoDiscount,
     [hasFactor |-> FALSE, factor |-> 0, gap |-> 0, hasMode |-> TRUE, mode |-> "Jaime"],
     [hasFactor |-> FALSE, factor |-> 0, gap |-> 0, hasMode |-> TRUE, mode |-> "Kene"],
     [hasFactor |-> TRUE, factor |-> 0, gap |-> 0, hasMode |-> TRUE, mode |-> "Kene"],
     [hasFactor |-> TRUE, factor |-> 1, gap |-> 0, hasMode |-> TRUE, mode |-> "Kene"],
     [hasFactor |-> TRUE, factor |-> 1, gap |-> 0, hasMode |-> TRUE, mode |-> "Jaime"],
     [hasFactor |-> TRUE, factor |-> 1, gap |-> 0, hasMode |-> FALSE, mode |-> ""]}

\* The storage flags of extraArgs.  A flag is Absent (no such field), "True"
\* or "False".  The driver reads extraArgs.flipOutput when lowMemory is true
\* and extraArgs.keepLast when the field flipOutput exists; the inputs supply
\* the field wherever it is read, and extraArgs.quiet is always supplied.
Absent == "<absent>"
Flags(lm, lmOld, fo, foOld, kl) ==
    [lowMemory |-> lm, low_memory |-> lmOld, flipOutput |-> fo,
     flip_output |-> foOld, keepLast |-> kl]
NoFlags == Flags(Absent, Absent, Absent, Absent, Absent)
FlagInputs ==
    {NoFlags,
     Flags(Absent, Absent, Absent, Absent, "True"),
     Flags(Absent, Absent, "False", Absent, "True"),
     Flags("True", Absent, "True", Absent, "True"),
     Flags("True", Absent, "False", Absent, "False"),
     Flags("True", Absent, "True", Absent, "False"),
     Flags(Absent, "True", Absent, "True", "False"),
     Flags(Absent, Absent, "False", Absent, "False"),
     Flags("False", Absent, Absent, Absent, Absent)}

\* Discounting is combined with an absent or static obstacle and target
\* (Kene's discounting reads the whole targetFunction array).
ArrayArgsInputs(n, len) ==
    {ea \in [obstacleFunction : ObstacleInputs(n, len),
             targetFunction : TargetInputs(n, len),
             discount : DiscountInputs] :
        ea.discount # NoDiscount =>
            /\ ea.obstacleFunction \in {NoArray, StaticArray(ConstField(n, 0))}
            /\ ea.targetFunction \in {NoArray, StaticArray(StepField(n))}}
\* The stopping fields of extraArgs.  stopInit is a state of the grid: a
\* vector of len coordinates that names the grid node `node' (0-based) when
\* onGrid, and a point outside the grid otherwise.
NoStopInit == [present |-> FALSE, len |-> 0, node |-> 0, onGrid |-> FALSE]
StopInitAt(k) == [present |-> TRUE, len |-> gDim, node |-> k, onGrid |-> TRUE]
StopInitOutside == [present |-> TRUE, len |-> gDim, node |-> 0, onGrid |-> FALSE]
StopInitTooLong == [present |-> TRUE, len |-> gDim + 1, node |-> 0, onGrid |-> TRUE]
\* stopConverge, convergeThreshold, discountAnneal: Absent when the field is
\* missing.  convergeThreshold is given in cell units (1e-5 when Absent).
NoStop ==
    [stopInit |-> NoStopInit, stopConverge |-> Absent, convergeThreshold |-> 0,
     hasThreshold |-> FALSE, discountAnneal |-> Absent]
StopOn(si, sc, thr, anneal) ==
    [stopInit |-> si, stopConverge |-> sc, convergeThreshold |-> thr,
     hasThreshold |-> thr > 0, discountAnneal |-> anneal]
WithFlags(ea, fl) ==
    [obstacleFunction |-> ea.obstacleFunction, targetFunction |-> ea.targetFunction,
     discount |-> ea.discount, lowMemory |-> fl.lowMemory,
     low_memory |-> fl.low_memory, flipOutput |-> fl.flipOutput,
     flip_output |-> fl.flip_output, keepLast |-> fl.keepLast,
     stop |-> NoStop]
\* every array argument with the default storage; the other storage flags
\* with an absent or a static obstacle and no target or discounting
ExtraArgsInputs(n, len) ==
    {WithFlags(ea, NoFlags) : ea \in ArrayArgsInputs(n, len)}
    \cup {WithFlags([obstacleFunction |-> ob, targetFunction |-> NoArray,
                     discount |-> NoDiscount], fl) :
             ob \in {NoArray, StaticArray(ConstField(n, 0))},
             fl \in FlagInputs \ {NoFlags}}

\* The stopping options are explored with compMethod 'set', no obstacle
\* and no target, in the default storage and with keepLast.  A discount
\* factor strictly below 1 is passed without Kene's discountMode.
WithStop(ea, st) == [ea EXCEPT !.stop = st]
KeepLastFlags == Flags(Absent, Absent, "False", Absent, "True")
AnnealOne == "<1>"
AnnealInputs == {Absent, "soft", "hard", AnnealOne, "other"}
FactorBelowOne(g) ==
    [hasFactor |-> TRUE, factor |-> 1, gap |-> g, hasMode |-> FALSE, mode |-> ""]
StopDiscountInputs == {NoDiscount, FactorBelowOne(0), FactorBelowOne(5), FactorBelowOne(12)}
StopInitInputs(n) == {StopInitAt(0), StopInitAt(n - 1), StopInitOutside, StopInitTooLong}
StopInputs(n) ==
    {StopOn(si, Absent, 0, Absent) : si \in StopInitInputs(n)}
    \cup {StopOn(NoStopInit, "True", thr, an) : thr \in {0, 2}, an \in AnnealInputs}
    \cup {StopOn(NoStopInit, "False", 0, Absent), StopOn(StopInitAt(0), "True", 2, Absent)}
StopExtraArgsInputs(n) ==
    {WithStop(WithFlags([obstacleFunction |-> NoArray, targetFunction |-> NoArray,
                         discount |-> c.d], c.fl), c.st) :
        c \in {x \in [d : StopDiscountInputs, fl : {NoFlags, KeepLastFlags},
                       st : StopInputs(n)] :
                  x.d # NoDiscount => x.st.stopConverge = "True"}}

\* schemeData as passed: the fields dissType and accuracy (Absent when the
\* field is missing).  A string is passed as an object: `same' tells whether
\* it is the interpreter's interned object for that text, which is what the
\* literals of hji_solver.py denote.
PyStr(text, same) == [text |-> text, same |-> same]
NoSchemeFields == [dissType |-> Absent, accuracy |-> PyStr(Absent, TRUE)]
AccuracyTexts == {"low", "medium", "high", "veryHigh", "extreme", ""}
DissTypeTexts == {"global", "local", "locallocal", "upwind"}
SchemeDataInputs ==
    {NoSchemeFields}
    \cup {[dissType |-> d, accuracy |-> PyStr(Absent, TRUE)] : d \in DissTypeTexts}
    \cup {[dissType |-> Absent, accuracy |-> PyStr(a, same)] :
             a \in AccuracyTexts, same \in BOOLEAN}

CompMethods ==
    {PyNone, "", "set", "none", "zero", "minWithZero",
     "minVOverTime", "maxVOverTime",
     "minVWithL", "minVwithL", "minVWithTarget",
     "maxVWithL", "maxVwithL", "maxVWithTarget",
     "minVWithV0", "maxVWithV0", "minVWithObstacle"}

Data0Inputs(n) == {PeakField(n), ConstField(n, 0 - MaxVal)}

RECURSIVE TauFrom(_, _)
TauFrom(t0, gaps) ==
    IF gaps = << >> THEN <<t0>>
    ELSE <<t0>> \o TauFrom(t0 + Head(gaps), Tail(gaps))
TauInputs == {TauFrom(0, gs) : gs \in UNION {[1..(len - 1) -> TauGaps] : len \in TauLens}}

(***************************************************************************)
(* termLaxFriedrichs(t, y, schemeData): grids, arrays and the user         *)
(* functions it calls.  A grid-shaped array is a function of the 0-based   *)
(* index tuple; y and ydot are flat vectors in row-major order.  The grid  *)
(* spacing is 1/2 on every axis, so one-sided differences are even.        *)
(***************************************************************************)
LFShapes == {<<3>>, <<2, 3>>}
LFAlphas == {1, 2}

RECURSIVE Product(_)
Product(s) == IF s = << >> THEN 1 ELSE Head(s) * Product(Tail(s))
NumCells(shape) == Product(shape)
Front(s) == SubSeq(s, 1, Len(s) - 1)

CellsOf(shape) ==
    IF Len(shape) = 1 THEN {<<a>> : a \in 0..(shape[1] - 1)}
    ELSE {<<a, b>> : a \in 0..(shape[1] - 1), b \in 0..(shape[2] - 1)}

\* offset of an index tuple in a C-ordered (row-major) array
RECURSIVE RowMajor(_, _)
RowMajor(shape, idx) ==
    IF idx = << >> THEN 0
    ELSE RowMajor(Front(shape), Front(idx)) * shape[Len(shape)] + idx[Len(idx)]
RECURSIVE ColMajor(_, _)
ColMajor(shape, idx) ==
    IF idx = << >> THEN 0
    ELSE ColMajor(Tail(shape), Tail(idx)) * Head(shape) + Head(idx)

\* y.reshape(grid.shape) and delta.flatten()
ReshapeF(yv, shape) == [idx \in CellsOf(shape) |-> yv[ColMajor(shape, idx) + 1]]
Reshape(yv, shape) == [idx \in CellsOf(shape) |-> yv[RowMajor(shape, idx) + 1]]
Flatten(a, shape) ==
    [k \in 1..NumCells(shape) |->
        a[CHOOSE idx \in CellsOf(shape) : RowMajor(shape, idx) + 1 = k]]

\* derivFunc(grid, data, dim): first-order upwind differences, periodic
\* ghost cells, dx = 1/2
Shifted(idx, axis, by, shape) ==
    [idx EXCEPT ![axis + 1] = (idx[axis + 1] + by) % shape[axis + 1]]
upwindFirstFirst(grid, dat, axis) ==
    [L |-> [idx \in CellsOf(grid.shape) |->
               2 * (dat[idx] - dat[Shifted(idx, axis, 0 - 1, grid.shape)])],
     R |-> [idx \in CellsOf(grid.shape) |->
               2 * (dat[Shifted(idx, axis, 1, grid.shape)] - dat[idx])]]

\* derivC[i] = 0.5 * (derivL[i] + derivR[i])
CenteredLeft(dL, dR) == dL
Centered(dL, dR) == [idx \in DOMAIN dL |-> (dL[idx] + dR[idx]) \div 2]

\* hamFunc(t, data, deriv, schemeData): two Hamiltonians, each returning the
\* array alone or the pair (array, updated schemeData)
HamForms == {"advection", "dataTimesP"}
HamFuncs == [form : HamForms, returnsSchemeData : BOOLEAN]
RECURSIVE SumOver(_, _)
SumOver(arrs, idx) ==
    IF arrs = << >> THEN 0 ELSE Head(arrs)[idx] + SumOver(Tail(arrs), idx)
HamValue(form, dat, deriv, shape) ==
    [idx \in CellsOf(shape) |->
        IF form = "advection" THEN SumOver(deriv, idx)
        ELSE dat[idx] * deriv[1][idx]]
UpdatedSchemeData(sd) == [sd EXCEPT !.alpha = sd.alpha + 1, !.gen = sd.gen + 1]
hamFunc(t, dat, deriv, sd) ==
    [isTuple |-> sd.hamFunc.returnsSchemeData,
     ham |-> HamValue(sd.hamFunc.form, dat, deriv, sd.grid.shape),
     sd |-> IF sd.hamFunc.returnsSchemeData THEN UpdatedSchemeData(sd) ELSE sd]

\* dissFunc(t, data, derivL, derivR, schemeData): global Lax-Friedrichs with
\* alpha_d = schemeData.alpha on every axis; stepBound = 1 / sum_d alpha_d / dx_d,
\* in units of 1/120
RECURSIVE DiffSum(_, _, _)
DiffSum(dL, dR, idx) ==
    IF dL = << >> THEN 0
    ELSE (Head(dR)[idx] - Head(dL)[idx]) \div 2 + DiffSum(Tail(dL), Tail(dR), idx)
dissFunc(t, dat, dL, dR, sd) ==
    [diss |-> [idx \in CellsOf(sd.grid.shape) |-> sd.alpha * DiffSum(dL, dR, idx)],
     stepBound |-> 60 \div (sd.alpha * sd.grid.dim)]

\* inputs
LFGrid(shape) == [dim |-> Len(shape), shape |-> shape]
LFSchemeData(shape, hf, a) ==
    [grid |-> LFGrid(shape), derivFunc |-> "upwindFirstFirst",
     dissFunc |-> "artificialDissipationGLF", hamFunc |-> hf,
     partialFunc |-> "partialFunc", alpha |-> a, gen |-> 0]
LFYInputs(n) ==
    {[c \in 1..n |-> IF c = a THEN v ELSE IF c = b THEN w ELSE 0] :
        <<a, b>> \in (1..n) \X (1..n), <<v, w>> \in Vals \X Vals}
\* a possibly cell-valued argument: cell says whether it is a list, items
\* holds its elements (the single value when it is not a list)
Plain(x) == [cell |-> FALSE, items |-> <<x>>]
CellOf(x, rest) == [cell |-> TRUE, items |-> <<x>> \o rest]
iscell(x) == x.cell
First(x) == x.items[1]

(***************************************************************************)
(* State.  args holds the arguments of the call; the other variables are   *)
(* the locals of HJIPDE_solve and (lf) the frame of termLaxFriedrichs.     *)
(***************************************************************************)
VARIABLES
    args,        \* [data0, tau, compMethod, extraArgs, gridN] as passed by the caller
    pc,          \* "call", "macro", "inner", "break", "done", "error", "idle"
    err,         \* message of the fatal error, "" when none
    tau,         \* local tau (truncated on an early stop)
    compMethod,  \* local compMethod (after defaulting)
    data0,       \* local data0 (after obstacle masking)
    obsMode, obstacle_i,
    targMode, target_i,
    schemeFunc,  \* term handed to the integrator
    schemeData,  \* fields the driver writes into schemeData
    data,        \* stored history, indexed data[k, ...]
    i,           \* macro-step index (0-based, as in the code)
    tNow, y, yLast,
    yInt,        \* y as returned by the last integratorFunc call
    yComb,       \* y after the compMethod stage of the last step
    deltaT,      \* step taken by the last integratorFunc call
    stepBound,   \* bound the scheme function returned in that call
    nSteps,      \* integratorFunc calls made in the current macro-step
    reported,    \* stepBounds the integrator calls of this macro-step reported
    extraArgs,   \* local extraArgs (after the backwards-compatible renaming)
    lowMemory, keepLast, flipOutput,
    integratorFunc,
    extraOuts,   \* [hasStoptau, stoptau]: the field stoptau of extraOuts
    change,      \* max change of the last macro-step (Unbound before it is set)
    lf,          \* frame of a termLaxFriedrichs evaluation
    pg,          \* frame of a processGrid call
    wn,          \* frame of an upwindFirstWENO5a call
    pj           \* frame of a proj call

flagVars == <<extraArgs, lowMemory, keepLast, flipOutput, integratorFunc>>
stopVars == <<extraOuts, change>>
solverVars == <<args, pc, err, tau, compMethod, data0, obsMode, obstacle_i,
                targMode, target_i, schemeFunc, schemeData, data, i,
                tNow, y, yLast, yInt, yComb, deltaT, stepBound, nSteps, reported, flagVars,
                stopVars>>
vars == <<args, pc, err, tau, compMethod, data0, obsMode, obstacle_i,
          targMode, target_i, schemeFunc, schemeData, data, i,
          tNow, y, yLast, yInt, yComb, deltaT, stepBound, nSteps, reported, flagVars, stopVars, lf, pg, wn, pj>>

Unset == << >>
lfIdle == [pc |-> "idle"]
pgIdle == [pc |-> "idle"]
wnIdle == [pc |-> "idle"]
pjIdle == [pc |-> "idle"]
NoExtraOuts == [hasStoptau |-> FALSE, stoptau |-> 0]
Unbound == 0 - 1

\* schemeData as the driver holds it: the caller's fields and the fields the
\* driver writes (dissFunc, derivFunc, innerFunc, positive)
SchemeDataArg(sd) ==
    [dissType |-> sd.dissType, accuracy |-> sd.accuracy,
     dissFunc |-> Absent, derivFunc |-> Absent,
     innerFunc |-> "", positive |-> PyNone]

\* The calls explored: every compMethod, array argument and data0 with the
\* default storage flags and schemeData fields; the other storage flags and
\* the other schemeData fields with compMethod 'set' or 'minVOverTime'.
RunInputs(n, len) ==
    {[data0 |-> d0, compMethod |-> cm, extraArgs |-> ea, schemeData |-> NoSchemeFields] :
        d0 \in Data0Inputs(n), cm \in CompMethods,
        ea \in {e \in ExtraArgsInputs(n, len) :
                  e.lowMemory = Absent /\ e.low_memory = Absent /\ e.flipOutput = Absent
                  /\ e.flip_output = Absent /\ e.keepLast = Absent}}
    \cup {[data0 |-> PeakField(n), compMethod |-> cm, extraArgs |-> ea,
           schemeData |-> NoSchemeFields] :
        cm \in {"set", "minVOverTime"}, ea \in ExtraArgsInputs(n, len)}
    \cup {[data0 |-> PeakField(n), compMethod |-> "set",
           extraArgs |-> WithFlags([obstacleFunction |-> NoArray,
                                    targetFunction |-> NoArray,
                                    discount |-> NoDiscount], NoFlags),
           schemeData |-> sd] : sd \in SchemeDataInputs}
    \cup {[data0 |-> PeakField(n), compMethod |-> "set", extraArgs |-> ea,
           schemeData |-> NoSchemeFields] : ea \in StopExtraArgsInputs(n)}

Init ==
    /\ \E n \in GridSizes, tauIn \in TauInputs :
         \E run \in RunInputs(n, Len(tauIn)) :
            args = [data0 |-> run.data0, tau |-> tauIn, compMethod |-> run.compMethod,
                    extraArgs |-> run.extraArgs, schemeData |-> run.schemeData,
                    gridN |-> n]
    /\ pc = "call"
    /\ err = ""
    /\ tau = args.tau
    /\ compMethod = args.compMethod
    /\ data0 = args.data0
    /\ obsMode = "none" /\ obstacle_i = Unset
    /\ targMode = "none" /\ target_i = Unset
    /\ schemeFunc = "" /\ schemeData = SchemeDataArg(args.schemeData)
    /\ data = Unset
    /\ i = 0 /\ tNow = 0
    /\ y = Unset /\ yLast = Unset /\ yInt = Unset /\ yComb = Unset
    /\ deltaT = 0 /\ stepBound = 0 /\ nSteps = 0 /\ reported = {}
    /\ extraArgs = args.extraArgs
    /\ lowMemory = FALSE /\ keepLast = FALSE /\ flipOutput = FALSE
    /\ integratorFunc = Absent
    /\ extraOuts = NoExtraOuts /\ change = Unbound
    /\ lf = lfIdle
    /\ pg = pgIdle
    /\ wn = wnIdle
    /\ pj = pjIdle

(***************************************************************************)
(* HJIPDE_solve, lines 224-574: argument processing and allocation.        *)
(***************************************************************************)
\* `if not compMethod: compMethod = 'minVOverTime'`
DefaultCompMethod(cm) == IF cm = PyNone \/ cm = "" THEN "minVOverTime" ELSE cm

\* obstacle / target mode from the array's ndim
ArrayMode(a) ==
    IF ~a.present THEN "none"
    ELSE IF a.ndim = gDim THEN "static"
    ELSE IF a.ndim = gDim + 1 THEN "time-varying"
    ELSE "inconsistent"

\* the slice of a static or time-indexed array for Python time index k
SliceAt(a, k) == IF a.ndim = gDim THEN a.slices[1] ELSE PyAt(a.slices, k)

\* data0 = np.maximum(data0, -obstacle_i)
MaskWithObstacle(f, obst) == npMaximum(f, npNegative(obst))

\* scheme function and the fields written into schemeData
SchemeFuncFor(cm) ==
    IF cm = "minWithZero" \/ cm = "zero" THEN "termRestrictUpdate"
    ELSE "termLaxFriedrichs"
SchemeDataFor(cm, sd) ==
    IF cm = "minWithZero" \/ cm = "zero"
    THEN [sd EXCEPT !.innerFunc = "termLaxFriedrichs", !.positive = 0]
    ELSE sd

\* lines 243-247: extraArgs.lowMemory = extraArgs.low_memory, and the same
\* for flip_output
Renamed(ea) ==
    [ea EXCEPT !.lowMemory = IF ea.low_memory # Absent THEN ea.low_memory ELSE @,
               !.flipOutput = IF ea.flip_output # Absent THEN ea.flip_output ELSE @]
isfield(ea, v) == v # Absent
FlagTrue(v) == v = "True"
\* lines 257-267
LowMemoryOf(ea) == isfield(ea, ea.lowMemory) /\ FlagTrue(ea.lowMemory)
FlipOutputOf(ea) == LowMemoryOf(ea) /\ FlagTrue(ea.flipOutput) /\ FlagTrue(ea.flipOutput)
KeepLastOf(ea) == isfield(ea, ea.flipOutput) /\ FlagTrue(ea.keepLast)

\* lines 494-496: accuracy = 'veryHigh' unless schemeData has the field
AccuracyOf(sd) ==
    IF sd.accuracy.text # Absent THEN sd.accuracy ELSE PyStr("veryHigh", TRUE)
\* line 499: dissType = 'global'
DissTypeOf(sd) == "global"

\* `a is 'text'`: true of the very object the literal denotes
PyIs(a, text) == a.text = text /\ a.same

\* getNumericalFuncs(dissType, accuracy), lines 973-1000
DissFuncFor(dissType) ==
    IF dissType = "global" THEN "artificialDissipationGLF"
    ELSE IF dissType = "local" THEN "artificialDissipationLLF"
    ELSE IF dissType = "locallocal" THEN "artificialDissipationLLLF"
    ELSE Absent
getNumericalFuncs(dissType, accuracy) ==
    LET dissF == DissFuncFor(dissType)
        funcs(derivF, integF) ==
            [e |-> "", dissFunc |-> dissF, integratorFunc |-> integF,
             derivFunc |-> derivF]
    IN IF dissF = Absent THEN
           [e |-> "Unknown dissipation function", dissFunc |-> Absent,
            integratorFunc |-> Absent, derivFunc |-> Absent]
       ELSE IF PyIs(accuracy, "low") THEN funcs("upwindFirstFirst", "odeCFL1")
       ELSE IF PyIs(accuracy, "medium") THEN funcs("upwindFirstENO2", "odeCFL2")
       ELSE IF PyIs(accuracy, "high") THEN funcs("upwindFirstENO3", "odeCFL3")
       ELSE IF PyIs(accuracy, "veryHigh") THEN funcs("upwindFirstWENO5", "odeCFL3")
       ELSE [e |-> "Unknown accuracy level", dissFunc |-> dissF,
             integratorFunc |-> Absent, derivFunc |-> Absent]

\* y.reshape(g.shape) of a flat vector
CanReshape(yv, n) == Len(yv) = n

\* data = np.zeros(data0size[0:gDim] + (len(tau),)): rows along the grid axis
AllocData(n, len) == [k \in 1..n |-> Zeros(len)]
\* data[0, ...] = data0 needs data0 to broadcast to a row of data
CanAssignRow(rowLen, f) == Len(f) = rowLen \/ Len(f) = 1
AssignRow(d, k, f) ==
    [d EXCEPT ![k + 1] = IF Len(f) = 1 THEN [c \in 1..Len(d[k + 1]) |-> f[1]] ELSE f]

Fail(msg) ==
    /\ pc' = "error"
    /\ err' = msg

\* lines 309-311: stopInit is a vector of g.dim coordinates
StopInitIsVector(si) == si.len = gDim
\* lines 483-489.  Cell values are whole numbers here, so a change is below
\* the default threshold 1e-5 exactly when it is below one unit.
StopConvergeOf(ea) == isfield(ea, ea.stop.stopConverge) /\ FlagTrue(ea.stop.stopConverge)
convergeThresholdDefault == 1
ConvergeThresholdOf(ea) ==
    IF ea.stop.hasThreshold THEN ea.stop.convergeThreshold ELSE convergeThresholdDefault

\* `if numel(tau) < 2`
TauTooShortIfEmpty(tauV) == Len(tauV) < 1
TauTooShort(tauV) == Len(tauV) < 2

Setup ==
    /\ pc = "call"
    /\ LET ea == Renamed(args.extraArgs)
           cm == DefaultCompMethod(args.compMethod)
           om == ArrayMode(ea.obstacleFunction)
           tm == ArrayMode(ea.targetFunction)
           ob == IF om \in {"static", "time-varying"}
                 THEN SliceAt(ea.obstacleFunction, 0) ELSE Unset
           tg == IF tm \in {"static", "time-varying"}
                 THEN SliceAt(ea.targetFunction, 0) ELSE Unset
           d0 == IF om \in {"static", "time-varying"}
                 THEN MaskWithObstacle(args.data0, ob) ELSE args.data0
           nf == getNumericalFuncs(DissTypeOf(schemeData), AccuracyOf(schemeData))
           flagsSet == /\ extraArgs' = ea
                       /\ lowMemory' = LowMemoryOf(ea)
                       /\ flipOutput' = FlipOutputOf(ea)
                       /\ keepLast' = KeepLastOf(ea)
       IN
       IF TauTooShort(args.tau) THEN
           /\ Fail("Time vector must have at least two elements!")
           /\ UNCHANGED <<args, tau, compMethod, data0, obsMode, obstacle_i, targMode,
                          target_i, schemeFunc, schemeData, data, i, tNow, y,
                          yLast, yInt, yComb, deltaT, stepBound, nSteps, reported, flagVars, stopVars, lf, pg, wn, pj>>
       ELSE IF om = "inconsistent" THEN
           /\ Fail("Inconsistent obstacle dimensions!")
           /\ compMethod' = cm
           /\ flagsSet
           /\ UNCHANGED <<args, tau, data0, obsMode, obstacle_i, targMode,
                          target_i, schemeFunc, schemeData, data, i, tNow, y,
                          yLast, yInt, yComb, deltaT, stepBound, nSteps, reported,
                          integratorFunc, stopVars, lf, pg, wn, pj>>
       ELSE IF tm = "inconsistent" THEN
           /\ Fail("Inconsistent target dimensions!")
           /\ compMethod' = cm
           /\ flagsSet
           /\ data0' = d0 /\ obsMode' = om /\ obstacle_i' = ob
           /\ UNCHANGED <<args, tau, targMode,
                          target_i, schemeFunc, schemeData, data, i, tNow, y,
                          yLast, yInt, yComb, deltaT, stepBound, nSteps, reported,
                          integratorFunc, stopVars, lf, pg, wn, pj>>
       ELSE IF ea.stop.stopInit.present /\ ~StopInitIsVector(ea.stop.stopInit) THEN
           /\ Fail("stopInit must be a vector of length g.dim!")
           /\ compMethod' = cm
           /\ flagsSet
           /\ data0' = d0 /\ obsMode' = om /\ obstacle_i' = ob
           /\ targMode' = tm /\ target_i' = tg
           /\ UNCHANGED <<args, tau, schemeFunc, schemeData, data, i, tNow, y,
                          yLast, yInt, yComb, deltaT, stepBound, nSteps, reported,
                          integratorFunc, stopVars, lf, pg, wn, pj>>
       ELSE IF nf.e # "" THEN
           /\ Fail(nf.e)
           /\ compMethod' = cm
           /\ flagsSet
           /\ data0' = d0 /\ obsMode' = om /\ obstacle_i' = ob
           /\ targMode' = tm /\ target_i' = tg
           /\ schemeFunc' = "termLaxFriedrichs"
           /\ UNCHANGED <<args, tau, schemeData, data, i, tNow, y,
                          yLast, yInt, yComb, deltaT, stepBound, nSteps, reported,
                          integratorFunc, stopVars, lf, pg, wn, pj>>
       ELSE
           /\ compMethod' = cm
           /\ flagsSet
           /\ data0' = d0 /\ obsMode' = om /\ obstacle_i' = ob
           /\ targMode' = tm /\ target_i' = tg
           /\ schemeFunc' = SchemeFuncFor(cm)
           /\ schemeData' = SchemeDataFor(cm, [schemeData EXCEPT
                                                  !.dissFunc = nf.dissFunc,
                                                  !.derivFunc = nf.derivFunc])
           /\ integratorFunc' = nf.integratorFunc
           /\ IF KeepLastOf(ea) \/ LowMemoryOf(ea)
              THEN \* data = copy.copy(data0) / data0.astype(np.float32)
                   /\ data' = d0
                   /\ i' = 1
                   /\ pc' = "macro"
                   /\ err' = err
              ELSE IF CanAssignRow(Len(args.tau), d0)
              THEN /\ data' = AssignRow(AllocData(args.gridN, Len(args.tau)), 0, d0)
                   /\ i' = 1
                   /\ pc' = "macro"
                   /\ err' = err
              ELSE /\ data' = AllocData(args.gridN, Len(args.tau))
                   /\ i' = i
                   /\ Fail("ValueError: could not broadcast input array")
           /\ UNCHANGED <<args, tau, tNow, y, yLast, yInt, yComb, deltaT,
                          stepBound, nSteps, reported, stopVars, lf, pg, wn, pj>>

(***************************************************************************)
(* The integrator (odeCFL1/2/3) called with singleStep 'on': one accepted  *)
(* step from tspan[0] towards tspan[1].  The scheme function's stepBound   *)
(* and the new y depend on the Hamiltonian; they are chosen freely.        *)
(***************************************************************************)
integratorOptionsDoubled ==
    [factorCFL |-> [num |-> 2 * factorCFLNum, den |-> factorCFLDen], singleStep |-> "on"]
integratorOptions ==
    [factorCFL |-> [num |-> factorCFLNum, den |-> factorCFLDen], singleStep |-> "on"]

\* tspan argument of the integratorFunc call: [tNow, tau[i]]
TSpanToEnd(tN, tauV, idx) == <<tN, tauV[Len(tauV)]>>
TSpan(tN, tauV, idx) == <<tN, PyAt(tauV, idx)>>

\* The new y of one integrator step: the value of the first or of the last
\* cell moves by one unit, up or down, within Vals; or the step yields a NaN.
Bump(yv, c, d) == [yv EXCEPT ![c] = Max2(0 - MaxVal, Min2(MaxVal, yv[c] + d))]
IntegratorOutputs(yv) ==
    {Bump(yv, c, d) : c \in {1, Len(yv)}, d \in {0 - 1, 1}} \cup {[yv EXCEPT ![1] = NaN]}

\* deltaT = min(factorCFL * stepBound, tEnd - t)
ProposedDeltaT(tspan, sb, options) ==
    Min2((options.factorCFL.num * sb) \div options.factorCFL.den, tspan[2] - tspan[1])

odeCFL(tspan, yv, options) ==
    {[t |-> tspan[1] + ProposedDeltaT(tspan, sb, options), y |-> out,
      stepBound |-> sb, deltaT |-> ProposedDeltaT(tspan, sb, options)] :
        sb \in StepBounds, out \in IntegratorOutputs(yv)}

(***************************************************************************)
(* HJIPDE_solve, lines 622-724: what follows an integrator call.           *)
(***************************************************************************)
IsOverTime(cm) == cm = "minVOverTime" \/ cm = "maxVOverTime"
IsMaxWithL(cm) == cm = "maxVWithL" \/ cm = "maxVwithL" \/ cm = "maxVWithTarget"
IsMinWithL(cm) == cm = "minVWithL" \/ cm = "minVwithL" \/ cm = "minVWithTarget"

Ok(yv) == [e |-> "", y |-> yv]
Raise(msg, yv) == [e |-> msg, y |-> yv]

\* lines 646-651: min / max with the value before the step
CombineOverTimeSwapped(cm, yI, yL) ==
    IF cm = "minVOverTime" THEN npMaximum(yI, yL) ELSE npMinimum(yI, yL)
CombineOverTime(cm, yI, yL) ==
    IF cm = "minVOverTime" THEN npMinimum(yI, yL) ELSE npMaximum(yI, yL)

\* lines 652-655: min / max with data0
CombineWithV0Swapped(cm, yI, d0) ==
    IF cm = "minVWithV0" THEN npMaximum(yI, d0) ELSE npMinimum(yI, d0)
CombineWithV0(cm, yI, d0) ==
    IF cm = "minVWithV0" THEN npMinimum(yI, d0) ELSE npMaximum(yI, d0)

\* lines 656-672: min / max with the target of time index idx
CombineWithLFirstSlice(cm, ea, yI, idx) ==
    IF ~ea.targetFunction.present
    THEN Raise("Need to define target function l(x)!", yI)
    ELSE IF IsMaxWithL(cm)
    THEN Ok(npMaximum(yI, ea.targetFunction.slices[1]))
    ELSE Ok(npMinimum(yI, ea.targetFunction.slices[1]))
CombineWithL(cm, ea, yI, idx) ==
    IF ~ea.targetFunction.present
    THEN Raise("Need to define target function l(x)!", yI)
    ELSE IF IsMaxWithL(cm)
    THEN Ok(npMaximum(yI, SliceAt(ea.targetFunction, idx)))
    ELSE Ok(npMinimum(yI, SliceAt(ea.targetFunction, idx)))

\* the if/elif chain on compMethod, lines 641-674
CompMethodStageLenient(cm, ea, yI, yL, d0, idx) ==
    IF IsOverTime(cm) THEN Ok(CombineOverTime(cm, yI, yL))
    ELSE IF cm = "minVWithV0" \/ cm = "maxVWithV0" THEN Ok(CombineWithV0(cm, yI, d0))
    ELSE IF IsMaxWithL(cm) \/ IsMinWithL(cm) THEN CombineWithL(cm, ea, yI, idx)
    ELSE Ok(yI)
CompMethodStage(cm, ea, yI, yL, d0, idx) ==
    IF cm = "zero" \/ cm = "set" \/ cm = PyNone THEN Ok(yI)
    ELSE IF IsOverTime(cm) THEN Ok(CombineOverTime(cm, yI, yL))
    ELSE IF cm = "minVWithV0" \/ cm = "maxVWithV0" THEN Ok(CombineWithV0(cm, yI, d0))
    ELSE IF IsMaxWithL(cm) \/ IsMinWithL(cm) THEN CombineWithL(cm, ea, yI, idx)
    ELSE Raise("Check which compMethod you are using", yI)

\* line 678: the discount update is entered when discountFactor is set and
\* nonzero; its condition then calls the undefined name eisfield
JaimeDiscountStage(ea, yv) ==
    IF ea.discount.hasFactor /\ PyTruthy(ea.discount.factor)
    THEN Raise("NameError: name 'eisfield' is not defined", yv)
    ELSE Ok(yv)

\* lines 690-711, Kene's discounting with a static target
MaxAbs(f) == SeqMax([c \in 1..Len(f) |-> Abs(f[c])])
KeneStage(cm, ea, yI) ==
    IF ~ea.targetFunction.present
    THEN Raise("Need to define target function l(x)!", yI)
    ELSE LET tf == ea.targetFunction.slices[1]
             maxVal == MaxAbs(tf)
             ytemp == npMulScalar(npAddScalar(yI, 0 - maxVal), ea.discount.factor)
             targettemp == npAddScalar(tf, 0 - maxVal)
         IN IF IsMinWithL(cm)
            THEN Ok(npAddScalar(npMinimum(ytemp, targettemp), maxVal))
            ELSE IF IsMaxWithL(cm)
            THEN Ok(npAddScalar(npMaximum(ytemp, targettemp), maxVal))
            ELSE Raise("check your compMethod!", yI)

\* lines 630-713
CombineStage(cm, ea, yI, yL, d0, idx) ==
    IF ~ea.discount.hasMode \/ ea.discount.mode # "Kene" THEN
        LET r == CompMethodStage(cm, ea, yI, yL, d0, idx)
        IN IF r.e # "" THEN r ELSE JaimeDiscountStage(ea, r.y)
    ELSE IF ea.discount.hasFactor /\ PyTruthy(ea.discount.factor)
            /\ ea.discount.hasMode /\ ea.discount.mode = "Kene" THEN
        KeneStage(cm, ea, yI)
    ELSE Raise("check your discountFactor and discountMode", yI)

\* lines 716-719: obstacle of this macro-step and y = omax(y, -obstacle_i)
ObstacleNowStale(ea, mode, obst, idx) == obst
ObstacleNow(ea, mode, obst, idx) ==
    IF ea.obstacleFunction.present /\ mode = "time-varying"
    THEN PyAt(ea.obstacleFunction.slices, idx) ELSE obst
ObstacleStage(ea, mode, obst, idx, yv) ==
    IF ea.obstacleFunction.present
    THEN MaskWithObstacle(yv, ObstacleNow(ea, mode, obst, idx))
    ELSE yv
\* lines 722-724
TargetNow(ea, mode, targ, idx) ==
    IF ea.targetFunction.present /\ mode = "time-varying"
    THEN PyAt(ea.targetFunction.slices, idx) ELSE targ

(***************************************************************************)
(* The loops of HJIPDE_solve, lines 576-808.                               *)
(***************************************************************************)
\* size(data, g.dim + 1) on the single slice that keepLast / lowMemory hold:
\* the array has no such axis.  size is a function of Utilities; it answers
\* 1 as MATLAB's size does, or fails as an index into data.shape does.
SizeBeyondAxes == {[e |-> "", n |-> 1], [e |-> "IndexError", n |-> 0]}
\* y0 = data[k, ...] of a single slice of a one-dimensional grid: one cell
CellVector(d, k) == <<PyAt(d, k)>>

\* for i in range(istart, len(tau)): y0 = ...; y = y0.flatten(); tNow = tau[i-1]
MacroBegin ==
    /\ pc = "macro"
    /\ i < Len(tau)
    /\ \E sz \in SizeBeyondAxes :
         IF keepLast THEN
             y' = data /\ pc' = "inner" /\ err' = err
         ELSE IF lowMemory /\ flipOutput THEN
             y' = CellVector(data, 0) /\ pc' = "inner" /\ err' = err
         ELSE IF lowMemory /\ sz.e # "" THEN
             y' = y /\ Fail("IndexError: tuple index out of range")
         ELSE IF lowMemory THEN
             y' = CellVector(data, sz.n) /\ pc' = "inner" /\ err' = err
         ELSE
             y' = PyAt(data, i - 1) /\ pc' = "inner" /\ err' = err
    /\ tNow' = IF pc' = "inner" THEN PyAt(tau, i - 1) ELSE tNow
    /\ nSteps' = 0 /\ reported' = {}
    /\ yInt' = Unset /\ yComb' = Unset /\ deltaT' = 0 /\ stepBound' = 0
    /\ UNCHANGED <<args, tau, compMethod, data0, obsMode, obstacle_i,
                   targMode, target_i, schemeFunc, schemeData, data, i, yLast,
                   flagVars, stopVars, lf, pg, wn, pj>>

\* one pass of `while tNow < tau[i] - small`
InnerStep ==
    /\ pc = "inner"
    /\ tNow < PyAt(tau, i) - small
    /\ CanReshape(y, args.gridN)
    /\ \E res \in odeCFL(TSpan(tNow, tau, i), y, integratorOptions) :
         LET ea == extraArgs
             yl == IF IsOverTime(compMethod) THEN y ELSE yLast
             r == CombineStage(compMethod, ea, res.y, yl, data0, i)
         IN /\ yLast' = yl
            /\ tNow' = res.t
            /\ yInt' = res.y
            /\ deltaT' = res.deltaT
            /\ stepBound' = res.stepBound
            /\ nSteps' = nSteps + 1
            /\ reported' = reported \cup {res.stepBound}
            /\ IF npAnyIsNaN(res.y) THEN
                   /\ Fail("Nans encountered in the integrated result of HJI PDE data")
                   /\ y' = res.y
                   /\ UNCHANGED <<yComb, obstacle_i, target_i>>
               ELSE IF r.e # "" THEN
                   /\ Fail(r.e)
                   /\ y' = r.y
                   /\ yComb' = r.y
                   /\ UNCHANGED <<obstacle_i, target_i>>
               ELSE
                   /\ yComb' = r.y
                   /\ obstacle_i' = ObstacleNow(ea, obsMode, obstacle_i, i)
                   /\ y' = ObstacleStage(ea, obsMode, obstacle_i, i, r.y)
                   /\ target_i' = TargetNow(ea, targMode, target_i, i)
                   /\ UNCHANGED <<pc, err>>
    /\ UNCHANGED <<args, tau, compMethod, data0, obsMode, targMode,
                   schemeFunc, schemeData, data, i, flagVars, stopVars, lf, pg, wn, pj>>

\* the integrator evaluates schemeFunc, which reshapes y to the grid's shape
\* (term_lax_friedrich.py, line 97)
InnerStepFails ==
    /\ pc = "inner"
    /\ tNow < PyAt(tau, i) - small
    /\ ~CanReshape(y, args.gridN)
    /\ Fail("ValueError: cannot reshape array")
    /\ yLast' = IF IsOverTime(compMethod) THEN y ELSE yLast
    /\ UNCHANGED <<args, tau, compMethod, data0, obsMode, obstacle_i, targMode,
                   target_i, schemeFunc, schemeData, data, i, tNow, y, yInt,
                   yComb, deltaT, stepBound, nSteps, reported, flagVars, stopVars, lf, pg, wn, pj>>

\* line 750: change = np.max(np.abs(y - y0))
MaxChange(yv, y0v) == MaxAbs([c \in 1..Len(yv) |-> yv[c] - y0v[c]])
\* eval_u(g, data_i, x): the value of data_i at the state x, NaN when x lies
\* outside the grid
eval_u(dataI, si) == IF si.onGrid THEN PyAt(dataI, si.node) ELSE NaN
\* lines 756-758
StopInitHit(ea, dataI) ==
    /\ ea.stop.stopInit.present
    /\ eval_u(dataI, ea.stop.stopInit) # NaN
    /\ eval_u(dataI, ea.stop.stopInit) <= 0
\* size(data, gDim+1) of the stored history, an array with gDim+1 axes: the
\* extent of its last axis as MATLAB's size counts axes, or the failure of
\* an index into data.shape
SizeOfHistory(d) == {[e |-> "", n |-> Len(d[1])], [e |-> "IndexError", n |-> 0]}
\* d[a:b, ...]
PySlice(d, a, b) == SubSeq(d, a + 1, Min2(b, Len(d)))
\* line 788
DiscountFactorIsOne(d) == d.factor = 1 /\ d.gap = 0
DiscountFactorTruthy(d) == d.factor # 0 \/ d.gap # 0
AnnealsInstead(ea) ==
    /\ ea.discount.hasFactor /\ DiscountFactorTruthy(ea.discount)
    /\ isfield(ea, ea.stop.discountAnneal)
    /\ ~DiscountFactorIsOne(ea.discount)
\* lines 790-798; .00005 is AnnealSnap / GapUnits
AnnealSnap == 4
OneMinusFactor(d) == (1 - d.factor) * GapUnits + d.gap
SoftAnnealed(d) ==
    IF OneMinusFactor(d) < 2 * AnnealSnap
    THEN [d EXCEPT !.factor = 1, !.gap = 0]
    ELSE [d EXCEPT !.factor = 1, !.gap = OneMinusFactor(d) \div 2]
Annealed(d, anneal) ==
    IF anneal = "soft" THEN SoftAnnealed(d)
    ELSE IF anneal = "hard" \/ anneal = AnnealOne THEN [d EXCEPT !.factor = 1, !.gap = 0]
    ELSE d
StoppedAt(tauV, idx) == [hasStoptau |-> TRUE, stoptau |-> PyAt(tauV, idx)]

\* lines 741-808, after data_i is stored as `stored': the change of this
\* macro-step, the stopInit stop, the convergence stop or the annealing of
\* the discount factor; next i unless the loop is left
AfterStore(stored, chg) ==
    /\ change' = chg
    /\ IF StopInitHit(extraArgs, y) THEN
           /\ extraOuts' = StoppedAt(tau, i)
           /\ tau' = SubSeq(tau, 1, i + 1)
           /\ UNCHANGED <<extraArgs, i>>
           /\ IF lowMemory \/ keepLast THEN
                  data' = stored /\ pc' = "break" /\ err' = err
              ELSE \E sz \in SizeOfHistory(stored) :
                  IF sz.e # "" THEN
                      data' = stored /\ Fail("IndexError: tuple index out of range")
                  ELSE
                      \* data = data[i+1:size(data, gDim+1), ...]
                      data' = PySlice(stored, i + 1, sz.n) /\ pc' = "break" /\ err' = err
       ELSE IF StopConvergeOf(extraArgs) /\ chg < ConvergeThresholdOf(extraArgs) THEN
           IF AnnealsInstead(extraArgs) THEN
               /\ extraArgs' = [extraArgs EXCEPT
                                   !.discount = Annealed(@, extraArgs.stop.discountAnneal)]
               /\ data' = stored
               /\ i' = i + 1
               /\ pc' = "macro"
               /\ UNCHANGED <<err, tau, extraOuts>>
           ELSE
               /\ extraOuts' = StoppedAt(tau, i)
               /\ tau' = SubSeq(tau, 1, i + 1)
               /\ data' = stored
               /\ UNCHANGED <<extraArgs, i>>
               /\ IF lowMemory \/ keepLast THEN
                      pc' = "break" /\ err' = err
                  ELSE \E sz \in SizeOfHistory(stored) :
                      \* data[i+1:size(data, gDim+1), ...] = []
                      IF sz.e # "" THEN Fail("IndexError: tuple index out of range")
                      ELSE Fail("ValueError: could not broadcast input array")
       ELSE
           /\ data' = stored
           /\ i' = i + 1
           /\ pc' = "macro"
           /\ UNCHANGED <<err, tau, extraOuts, extraArgs>>

\* after the while loop, lines 726-808: data_i = y.reshape(g.shape), the
\* store of the storage mode, then the stopping conditions; next i
MacroEnd ==
    /\ pc = "inner"
    /\ ~(tNow < PyAt(tau, i) - small)
    /\ IF ~CanReshape(y, args.gridN) THEN
           /\ Fail("ValueError: cannot reshape array")
           /\ UNCHANGED <<data, i, tau, extraArgs, stopVars>>
       ELSE IF keepLast THEN
           AfterStore(y, IF StopConvergeOf(extraArgs) THEN MaxChange(y, data) ELSE change)
       ELSE IF lowMemory THEN
           \* np.concatenate(..., g.dim + 1) of arrays with g.dim axes
           /\ Fail("AxisError: axis is out of bounds for array")
           /\ UNCHANGED <<data, i, tau, extraArgs, stopVars>>
       ELSE IF i < Len(data) /\ CanAssignRow(Len(PyAt(data, i)), y)
       THEN AfterStore(AssignRow(data, i, y),
                       IF StopConvergeOf(extraArgs)
                       THEN MaxChange(y, PyAt(data, i - 1)) ELSE change)
       ELSE /\ Fail("IndexError or ValueError storing data[i, ...]")
            /\ UNCHANGED <<data, i, tau, extraArgs, stopVars>>
    /\ UNCHANGED <<args, compMethod, data0, obsMode, obstacle_i, targMode,
                   target_i, schemeFunc, schemeData, tNow, y, yLast, yInt,
                   yComb, deltaT, stepBound, nSteps, reported, lowMemory, keepLast,
                   flipOutput, integratorFunc, lf, pg, wn, pj>>

\* return data, tau, extraOuts
Return ==
    /\ pc \in {"macro", "break"}
    /\ pc = "macro" => ~(i < Len(tau))
    /\ pc' = "done"
    /\ UNCHANGED <<args, err, tau, compMethod, data0, obsMode, obstacle_i,
                   targMode, target_i, schemeFunc, schemeData, data, i, tNow,
                   y, yLast, yInt, yComb, deltaT, stepBound, nSteps, reported, flagVars, stopVars, lf, pg, wn, pj>>

Next == Setup \/ MacroBegin \/ InnerStep \/ InnerStepFails \/ MacroEnd \/ Return

Spec == Init /\ [][Next]_vars

(***************************************************************************)
(* termLaxFriedrichs, one action per call it makes.                        *)
(***************************************************************************)
SolverIdle ==
    /\ args = [data0 |-> << >>, tau |-> << >>, compMethod |-> PyNone,
               extraArgs |-> WithFlags([obstacleFunction |-> NoArray,
                                        targetFunction |-> NoArray,
                                        discount |-> NoDiscount], NoFlags),
               schemeData |-> NoSchemeFields, gridN |-> 0]
    /\ pc = "idle" /\ err = "" /\ tau = << >> /\ compMethod = PyNone
    /\ data0 = << >>
    /\ obsMode = "none" /\ obstacle_i = Unset
    /\ targMode = "none" /\ target_i = Unset
    /\ schemeFunc = "" /\ schemeData = SchemeDataArg(args.schemeData)
    /\ data = Unset
    /\ i = 0 /\ tNow = 0
    /\ y = Unset /\ yLast = Unset /\ yInt = Unset /\ yComb = Unset
    /\ deltaT = 0 /\ stepBound = 0 /\ nSteps = 0 /\ reported = {}
    /\ extraArgs = args.extraArgs
    /\ lowMemory = FALSE /\ keepLast = FALSE /\ flipOutput = FALSE
    /\ integratorFunc = Absent
    /\ extraOuts = NoExtraOuts /\ change = Unbound

LFFrame(t, yArg, sdArg) ==
    [pc |-> "entry", t |-> t, y |-> yArg, schemeDataArg |-> sdArg,
     schemeData |-> sdArg, thisSchemeData |-> Unset, grid |-> Unset,
     data |-> Unset, derivL |-> << >>, derivR |-> << >>, derivC |-> << >>,
     k |-> 0, ham |-> Unset, diss |-> Unset, stepBound |-> 0,
     ydot |-> Unset, calls |-> << >>]

InitLF ==
    /\ SolverIdle
    /\ pg = pgIdle
    /\ wn = wnIdle
    /\ pj = pjIdle
    /\ \E shape \in LFShapes, hf \in HamFuncs, a \in LFAlphas :
         \E yv \in LFYInputs(NumCells(shape)), sdCell \in BOOLEAN, yCell \in BOOLEAN :
            LET sd == LFSchemeData(shape, hf, a)
                other == LFSchemeData(shape, hf, a + 5)
            IN lf = LFFrame(0,
                            IF yCell THEN CellOf(yv, <<Zeros(NumCells(shape))>>) ELSE Plain(yv),
                            IF sdCell THEN CellOf(sd, <<other>>) ELSE Plain(sd))

\* lines 79-103: pick the first element of cell arguments, reshape y
LFEnter ==
    /\ lf.pc = "entry"
    /\ LET sd == First(lf.schemeDataArg)
           yv == First(lf.y)
       IN lf' = [lf EXCEPT !.pc = "deriv",
                           !.thisSchemeData = sd,
                           !.grid = sd.grid,
                           !.data = Reshape(yv, sd.grid.shape),
                           !.derivL = [d \in 1..sd.grid.dim |-> NaN],
                           !.derivR = [d \in 1..sd.grid.dim |-> NaN],
                           !.derivC = [d \in 1..sd.grid.dim |-> NaN],
                           !.k = 0]
    /\ UNCHANGED <<solverVars, pg, wn, pj>>

\* lines 105-108: one pass of `for i in range(grid.dim)`
LFDeriv ==
    /\ lf.pc = "deriv"
    /\ lf.k < lf.grid.dim
    /\ LET d == upwindFirstFirst(lf.grid, lf.data, lf.k)
       IN lf' = [lf EXCEPT !.derivL[lf.k + 1] = d.L,
                           !.derivR[lf.k + 1] = d.R,
                           !.derivC[lf.k + 1] = Centered(d.L, d.R),
                           !.k = lf.k + 1,
                           !.calls = Append(lf.calls, [fn |-> "derivFunc", axis |-> lf.k])]
    /\ UNCHANGED <<solverVars, pg, wn, pj>>

\* thisSchemeData after the hamFunc call; the schemeData to return
HamResultSchemeDataDropped(result, thisSD) == thisSD
HamResultSchemeData(result, thisSD) == IF result.isTuple THEN result.sd ELSE thisSD
StoreSchemeData(result, sdLocal) ==
    IF ~result.isTuple THEN sdLocal
    ELSE IF iscell(sdLocal)
    THEN [sdLocal EXCEPT !.items[1] = result.sd]
    ELSE Plain(result.sd)

\* lines 114-123
LFHam ==
    /\ lf.pc = "deriv"
    /\ ~(lf.k < lf.grid.dim)
    /\ LET result == hamFunc(lf.t, lf.data, lf.derivC, lf.thisSchemeData)
       IN lf' = [lf EXCEPT !.pc = "diss",
                           !.ham = result.ham,
                           !.thisSchemeData = HamResultSchemeData(result, lf.thisSchemeData),
                           !.schemeData = StoreSchemeData(result, lf.schemeData),
                           !.calls = Append(lf.calls,
                                [fn |-> "hamFunc", sd |-> lf.thisSchemeData,
                                 deriv |-> lf.derivC, out |-> result])]
    /\ UNCHANGED <<solverVars, pg, wn, pj>>

\* line 126
LFDiss ==
    /\ lf.pc = "diss"
    /\ LET result == dissFunc(lf.t, lf.data, lf.derivL, lf.derivR, lf.thisSchemeData)
       IN lf' = [lf EXCEPT !.pc = "update",
                           !.diss = result.diss,
                           !.stepBound = result.stepBound,
                           !.calls = Append(lf.calls,
                                [fn |-> "dissFunc", sd |-> lf.thisSchemeData,
                                 out |-> result])]
    /\ UNCHANGED <<solverVars, pg, wn, pj>>

\* delta = ham - diss
DeltaSum(hamA, dissA) == [idx \in DOMAIN hamA |-> hamA[idx] + dissA[idx]]
Delta(hamA, dissA) == [idx \in DOMAIN hamA |-> hamA[idx] - dissA[idx]]

\* lines 131-138: ydot = expand(-delta.flatten(), 1); return
LFReturn ==
    /\ lf.pc = "update"
    /\ lf' = [lf EXCEPT !.pc = "returned",
                        !.ydot = npNegative(Flatten(Delta(lf.ham, lf.diss), lf.grid.shape))]
    /\ UNCHANGED <<solverVars, pg, wn, pj>>

NextLF == LFEnter \/ LFDeriv \/ LFHam \/ LFDiss \/ LFReturn

SpecLF == InitLF /\ [][NextLF]_vars

(***************************************************************************)
(* Properties of termLaxFriedrichs.                                        *)
(***************************************************************************)
LFInputSchemeData == lf.schemeDataArg.items[1]
LFDim == LFInputSchemeData.grid.dim
LFShape == LFInputSchemeData.grid.shape
\* index tuple of the k-th entry (0-based) of a row-major vector
CellAt(k) == IF LFDim = 1 THEN <<k>> ELSE <<k \div LFShape[2], k % LFShape[2]>>
HalfSum(a, b) == (a + b) \div 2

\* C2: ydot has one entry per grid cell, in row-major order, equal to
\* -(ham - diss) with ham the Hamiltonian at the centered derivatives
\* 0.5 * (derivL[i] + derivR[i]) and diss the first output of dissFunc; the
\* stepBound is the second output of dissFunc.
LaxFriedrichsUpdate ==
    lf.pc = "returned" =>
        LET n == NumCells(LFShape)
            dissOut == lf.calls[Len(lf.calls)].out
            centered == [d \in 1..LFDim |->
                            [idx \in CellsOf(LFShape) |->
                                HalfSum(lf.derivL[d][idx], lf.derivR[d][idx])]]
            hamAt == HamValue(LFInputSchemeData.hamFunc.form, lf.data, centered, LFShape)
        IN /\ DOMAIN lf.ydot = 1..n
           /\ \A k \in 0..(n - 1) : lf.data[CellAt(k)] = lf.y.items[1][k + 1]
           /\ \A k \in 0..(n - 1) :
                 lf.ydot[k + 1] = 0 - (hamAt[CellAt(k)] - dissOut.diss[CellAt(k)])
           /\ lf.stepBound = dissOut.stepBound
LaxFriedrichsUpdateWitness ==
    /\ lf.pc = "returned" /\ LFDim = 2
    /\ \E idx \in CellsOf(LFShape) : lf.ham[idx] # 0 /\ lf.diss[idx] # 0
    /\ \E k \in DOMAIN lf.ydot : lf.ydot[k] > 0
    /\ \E k \in DOMAIN lf.ydot : lf.ydot[k] < 0

\* C3: derivFunc is called once per axis in increasing axis order, then
\* hamFunc once, then dissFunc once; dissFunc receives the scheme data S'
\* that hamFunc returned (the original S when hamFunc returned the array
\* alone), and S' is the scheme data returned (the first element of the
\* returned list when schemeData was passed as a list).
LaxFriedrichsCallOrder ==
    /\ Len(lf.calls) <= LFDim + 2
    /\ \A j \in 1..Len(lf.calls) :
          /\ j <= LFDim => lf.calls[j].fn = "derivFunc" /\ lf.calls[j].axis = j - 1
          /\ j = LFDim + 1 => lf.calls[j].fn = "hamFunc"
          /\ j = LFDim + 2 => lf.calls[j].fn = "dissFunc"
    /\ lf.pc = "returned" =>
          LET hamCall == lf.calls[LFDim + 1]
              dissCall == lf.calls[LFDim + 2]
              sdOut == IF hamCall.out.isTuple THEN hamCall.out.sd ELSE LFInputSchemeData
          IN /\ Len(lf.calls) = LFDim + 2
             /\ hamCall.sd = LFInputSchemeData
             /\ dissCall.sd = sdOut
             /\ lf.schemeData.items[1] = sdOut
             /\ lf.schemeData.cell = lf.schemeDataArg.cell
             /\ Tail(lf.schemeData.items) = Tail(lf.schemeDataArg.items)
LaxFriedrichsCallOrderWitness ==
    /\ lf.pc = "returned" /\ LFDim = 2
    /\ ~lf.schemeDataArg.cell
    /\ lf.calls[LFDim + 1].out.isTuple
    /\ lf.calls[LFDim + 2].sd # LFInputSchemeData

(***************************************************************************)
(* Properties of HJIPDE_solve.                                             *)
(***************************************************************************)
\* an integrator call has just returned a y without NaN
Stepped == nSteps > 0 /\ pc \in {"inner", "error"} /\ ~npAnyIsNaN(yInt)
\* slices 0 .. i-1 of data have been written
SlicesStored == pc \in {"macro", "inner", "done"}
DefaultStorage == ~keepLast /\ ~lowMemory
StoredSlices == IF SlicesStored /\ DefaultStorage THEN 0..(i - 1) ELSE {}
NoDiscounting(ea) ==
    /\ ~(ea.discount.hasFactor /\ ea.discount.factor # 0)
    /\ ~(ea.discount.hasMode /\ ea.discount.mode = "Kene")
LeqField(a, b) == \A c \in 1..Len(a) : a[c] <= b[c]
NegMaxField(a, o) == [c \in 1..Len(a) |-> IF a[c] >= 0 - o[c] THEN a[c] ELSE 0 - o[c]]
MinField(a, b) == [c \in 1..Len(a) |-> IF a[c] <= b[c] THEN a[c] ELSE b[c]]
MaxField(a, b) == [c \in 1..Len(a) |-> IF a[c] >= b[c] THEN a[c] ELSE b[c]]
\* slice k of an input array (its only slice when it has the grid's dimension)
InputSlice(a, k) == IF Len(a.slices) = 1 THEN a.slices[1] ELSE a.slices[k + 1]

\* C1: every integrator step the driver accepts advances tNow by a positive
\* dt with dt <= 0.8 * stepBound, and never beyond the target tau[i].
CFLSafety ==
    [][nSteps' = nSteps + 1 =>
          /\ tNow' - tNow = deltaT'
          /\ deltaT' > 0
          /\ factorCFLDen * deltaT' <= factorCFLNum * stepBound'
          /\ tNow' <= PyAt(tau, i)]_vars
\* a second step of a macro-step, cut short by the target time
CFLWitness ==
    /\ pc = "inner" /\ nSteps = 2
    /\ tNow = PyAt(tau, i)
    /\ factorCFLDen * deltaT < factorCFLNum * stepBound

\* C4 as stated: the initial data and every step are masked with the
\* obstacle, and every stored slice k dominates -obstacle (slice k of a
\* time-indexed obstacle).
ObstacleMaskStated ==
    args.extraArgs.obstacleFunction.present =>
        /\ (Stepped /\ pc = "inner") =>
              y = NegMaxField(yComb, InputSlice(args.extraArgs.obstacleFunction, i))
        /\ \A k \in StoredSlices :
              LeqField(npNegative(InputSlice(args.extraArgs.obstacleFunction, k)),
                       PyAt(data, k))

\* the latest macro-step j <= k that took an integrator step (0 when none)
RECURSIVE LastStepped(_, _)
LastStepped(tauV, k) ==
    IF k = 0 THEN 0
    ELSE IF PyAt(tauV, k - 1) < PyAt(tauV, k) - small THEN k
    ELSE LastStepped(tauV, k - 1)

\* C4, amended: as stated, except that stored slice k dominates the obstacle
\* slice of the latest macro-step j <= k whose interval exceeds 1e-4 (slice 0
\* when there is none); a macro-step that takes no step copies slice k-1.
ObstacleMask ==
    args.extraArgs.obstacleFunction.present =>
        /\ pc # "call" /\ err # "Inconsistent obstacle dimensions!"
              /\ err # "Time vector must have at least two elements!" =>
              data0 = NegMaxField(args.data0, InputSlice(args.extraArgs.obstacleFunction, 0))
        /\ (Stepped /\ pc = "inner") =>
              y = NegMaxField(yComb, InputSlice(args.extraArgs.obstacleFunction, i))
        /\ \A k \in StoredSlices :
              LeqField(npNegative(InputSlice(args.extraArgs.obstacleFunction,
                                             LastStepped(tau, k))),
                       PyAt(data, k))
ObstacleMaskWitness ==
    /\ pc = "done" /\ Len(tau) = 3 /\ nSteps > 0
    /\ args.extraArgs.obstacleFunction.ndim = gDim + 1
    /\ yComb # y
    /\ PyAt(data, 1) # PyAt(data, 2)

\* C5: with minVOverTime (maxVOverTime) and no discounting, the compMethod
\* stage of every step yields the element-wise min (max) of the integrator's
\* output and the y before the step; with a static or absent obstacle each
\* stored slice is pointwise <= (>=) the slice before it.
OverTimeSlices ==
    (/\ IsOverTime(compMethod)
     /\ NoDiscounting(args.extraArgs)
     /\ args.extraArgs.obstacleFunction.ndim # gDim + 1) =>
        \A k \in StoredSlices \ {0} :
           IF compMethod = "minVOverTime"
           THEN LeqField(PyAt(data, k), PyAt(data, k - 1))
           ELSE LeqField(PyAt(data, k - 1), PyAt(data, k))
OverTimeMonotone ==
    [][/\ (/\ nSteps' = nSteps + 1
           /\ IsOverTime(compMethod)
           /\ NoDiscounting(args.extraArgs)
           /\ ~npAnyIsNaN(yInt')) =>
             yComb' = IF compMethod = "minVOverTime"
                      THEN MinField(yInt', y) ELSE MaxField(yInt', y)
       /\ OverTimeSlices']_vars
\* two macro-steps under minVOverTime, each strictly lowering some cell
OverTimeWitness ==
    /\ pc = "done" /\ compMethod = "minVOverTime" /\ Len(tau) = 3
    /\ DefaultStorage
    /\ NoDiscounting(args.extraArgs)
    /\ args.extraArgs.obstacleFunction.ndim # gDim + 1
    /\ PyAt(data, 1) # PyAt(data, 0) /\ PyAt(data, 2) # PyAt(data, 1)
    /\ yComb # yInt

CompMethodErrors == {"Check which compMethod you are using", "check your compMethod!"}

\* C6 as stated: for 'set' and 'none' the step leaves the integrator's
\* output unchanged and the compMethod raises no error.
IdentityCombinatorStated ==
    (args.compMethod \in {"set", "none"} /\ Stepped /\ NoDiscounting(args.extraArgs)) =>
        yComb = yInt /\ err \notin CompMethodErrors

KeneMode(ea) == ea.discount.hasMode /\ ea.discount.mode = "Kene"

\* C8 as stated: with minVWithV0 (maxVWithV0), whatever extraArgs holds, the
\* step yields the min (max) of the integrator's output and the caller's phi_0.
WithV0Stated ==
    (compMethod \in {"minVWithV0", "maxVWithV0"} /\ Stepped) =>
        yComb = IF compMethod = "minVWithV0"
                THEN MinField(yInt, args.data0) ELSE MaxField(yInt, args.data0)

\* data0 as the driver holds it after start-up
MaskedData0 ==
    IF args.extraArgs.obstacleFunction.present
    THEN NegMaxField(args.data0, InputSlice(args.extraArgs.obstacleFunction, 0))
    ELSE args.data0

\* C8, amended: with discountMode other than 'Kene' the step yields the min
\* (max) of the integrator's output and data0 as masked at start-up,
\* max(phi_0, -obstacle) when an obstacle is supplied; with 'Kene' the step
\* ends in a fatal error.
WithV0 ==
    (compMethod \in {"minVWithV0", "maxVWithV0"} /\ Stepped) =>
        IF KeneMode(args.extraArgs) THEN pc = "error"
        ELSE yComb = IF compMethod = "minVWithV0"
                     THEN MinField(yInt, MaskedData0) ELSE MaxField(yInt, MaskedData0)
WithV0Witness ==
    /\ Stepped /\ pc = "inner" /\ compMethod = "minVWithV0"
    /\ args.extraArgs.obstacleFunction.present
    /\ yComb # MinField(yInt, args.data0)
    /\ yComb # yInt

IsWithL(cm) == IsMinWithL(cm) \/ IsMaxWithL(cm)
SomeStepDue(tauV) == \E k \in 1..(Len(tauV) - 1) : PyAt(tauV, k - 1) < PyAt(tauV, k) - small

RecognizedCompMethods ==
    {"set", "none", "zero", "minWithZero", "minVOverTime", "maxVOverTime",
     "minVWithL", "maxVWithL", "minVWithV0", "maxVWithV0",
     "minVWithTarget", "maxVWithTarget"}

NaNIsFatal ==
    [][/\ (nSteps' = nSteps + 1 /\ \E c \in 1..Len(yInt') : yInt'[c] = NaN) =>
            /\ pc' = "error"
            /\ err' = "Nans encountered in the integrated result of HJI PDE data"
            /\ y' = yInt'
            /\ yComb' = yComb /\ obstacle_i' = obstacle_i /\ target_i' = target_i
            /\ data' = data /\ i' = i
       /\ pc = "error" => (pc' = "error" /\ data' = data)]_vars
\* a NaN in the second macro-step, after slice 1 was stored
NaNIsFatalWitness ==
    /\ pc = "error"
    /\ err = "Nans encountered in the integrated result of HJI PDE data"
    /\ i = 2 /\ nSteps >= 2
    /\ DefaultStorage
    /\ PyAt(data, 1) # PyAt(data, 0)

\* C12: a tau with fewer than two elements ends the call with the fatal
\* error of line 226 and nothing else has happened: schemeData holds exactly
\* the caller's fields, data0, extraArgs and compMethod are as passed, no
\* function was selected, nothing was allocated and no integrator call made.
TauLengthFatal ==
    (Len(args.tau) < 2 /\ pc # "call") =>
        /\ pc = "error"
        /\ err = "Time vector must have at least two elements!"
        /\ schemeData = SchemeDataArg(args.schemeData)
        /\ schemeFunc = "" /\ integratorFunc = Absent
        /\ data0 = args.data0 /\ extraArgs = args.extraArgs
        /\ compMethod = args.compMethod
        /\ data = Unset /\ y = Unset /\ yInt = Unset /\ nSteps = 0
\* a one-element tau in a call whose data0 and extraArgs the set-up would
\* otherwise rewrite (obstacle mask, low_memory renaming)
TauLengthFatalWitness ==
    /\ pc = "error" /\ Len(args.tau) = 1
    /\ args.extraArgs.low_memory = "True"
    /\ args.extraArgs.obstacleFunction.present
    /\ MaskWithObstacle(args.data0, args.extraArgs.obstacleFunction.slices[1]) # args.data0

\* the set-up reached the selection of the numerical functions (line 499)
ReachedNumericalFuncs ==
    /\ pc # "call" /\ pc # "idle"
    /\ err \notin {"Time vector must have at least two elements!",
                   "Inconsistent obstacle dimensions!",
                   "Inconsistent target dimensions!"}

\* C13 as stated: schemeData.dissFunc is the dissipation function that
\* schemeData.dissType names, and any other dissType is a fatal error.
DissTypeStated ==
    (ReachedNumericalFuncs /\ args.schemeData.dissType # Absent
        /\ err # "Unknown accuracy level") =>
        LET dt == args.schemeData.dissType
        IN /\ dt = "global" => schemeData.dissFunc = "artificialDissipationGLF"
           /\ dt = "local" => schemeData.dissFunc = "artificialDissipationLLF"
           /\ dt = "locallocal" => schemeData.dissFunc = "artificialDissipationLLLF"
           /\ dt \notin {"global", "local", "locallocal"} =>
                 pc = "error" /\ err = "Unknown dissipation function"

AccuracyTable ==
    [low |-> <<"upwindFirstFirst", "odeCFL1">>,
     medium |-> <<"upwindFirstENO2", "odeCFL2">>,
     high |-> <<"upwindFirstENO3", "odeCFL3">>,
     veryHigh |-> <<"upwindFirstWENO5", "odeCFL3">>]

\* C14 as stated: the accuracy passed is schemeData.accuracy ('veryHigh'
\* when the field is missing); the four levels select (derivFunc,
\* integratorFunc) by the table and any other value is a fatal error.
AccuracyStated ==
    ReachedNumericalFuncs =>
        LET a == IF args.schemeData.accuracy.text = Absent THEN "veryHigh"
                 ELSE args.schemeData.accuracy.text
        IN IF a \in DOMAIN AccuracyTable
           THEN /\ err # "Unknown accuracy level"
                /\ schemeData.derivFunc = AccuracyTable[a][1]
                /\ integratorFunc = AccuracyTable[a][2]
           ELSE pc = "error" /\ err = "Unknown accuracy level"

StorageErrors ==
    {"ValueError: could not broadcast input array",
     "IndexError or ValueError storing data[i, ...]"}

\* C15 as stated: with the default storage the history can be allocated and
\* written for every grid and tau, and the solve returns len(tau) slices of
\* grid shape, slice 0 being the initial value function the driver holds and
\* slice i the y at the end of macro-step i.
HistoryStated ==
    DefaultStorage =>
        /\ err \notin StorageErrors
        /\ pc = "done" =>
              /\ Len(data) = Len(tau)
              /\ \A k \in 0..(Len(tau) - 1) : Len(PyAt(data, k)) = args.gridN
              /\ PyAt(data, 0) = data0
              /\ PyAt(data, Len(tau) - 1) = y

\* number of slices data holds: one array of grid shape under keepLast and
\* lowMemory, one row per time index otherwise
DataAllocated == data # Unset
SliceCount == IF keepLast \/ lowMemory THEN 1 ELSE Len(data)

\* C16 as stated: extraArgs.keepLast = True, whatever the other flags, makes
\* the stored data a single array of grid shape throughout, and the data
\* returned is the value at the last computed time.
KeepLastStated ==
    (args.extraArgs.keepLast = "True" /\ DataAllocated) =>
        /\ SliceCount = 1
        /\ Len(data) = args.gridN
        /\ pc = "done" => data = y

LowMemoryErrors ==
    {"IndexError: tuple index out of range",
     "ValueError: cannot reshape array",
     "AxisError: axis is out of bounds for array"}

MaxDim == 3

defaultMin == 0
defaultMax == 600
defaultN == 101
defaultBdry == "addGhostPeriodic"
maxDimension == 5

PGAbsent == [kind |-> "absent", v |-> << >>]
PGScalar(x) == [kind |-> "scalar", v |-> <<x>>]
PGColumn(s) == [kind |-> "column", v |-> s]
PGCell(s) == [kind |-> "cell", v |-> s]
PGTuple(s) == [kind |-> "tuple", v |-> s]
PGHas(g, f) == g[f].kind # "absent"

isColumnLength(a, n) == a.kind \in {"column", "cell"} /\ Len(a.v) = n
isscalar(a) == a.kind = "scalar"
\* a * cp.ones((dim, 1))
Replicated(a, n) == PGColumn([k \in 1..n |-> a.v[1]])
\* cp.any(a <= b) / cp.any(a <= 0)
AnyLeq(a, b) == \E k \in 1..Len(a.v) : a.v[k] <= b.v[k]
AnyNonPositive(a) == \E k \in 1..Len(a.v) : a.v[k] <= 0
\* The float inf that the division of a positive span by zero yields
PGInf == 1000000000
\* cp.divide(max - min, N - 1); max > min has been checked, so N[i] = 1
\* divides a positive span by zero
DivideSpan(mx, mn, n) ==
    PGColumn([k \in 1..Len(n.v) |->
                 IF n.v[k] = 1 THEN PGInf
                 ELSE (mx.v[k] - mn.v[k]) \div (n.v[k] - 1)])
\* cp.linspace(lo, hi, num); a single node is the start point
linspace(lo, hi, num) ==
    IF num = 1 THEN <<lo>>
    ELSE [k \in 1..num |-> lo + ((k - 1) * (hi - lo)) \div (num - 1)]
\* cp.meshgrid(*vs, indexing='ij'): array i has the shape (N[0], ..., N[dim-1])
\* and varies along axis i, where it takes the values of vs[i]
meshgrid(vs) ==
    PGCell([k \in 1..Len(vs.v) |->
               [shape |-> [j \in 1..Len(vs.v) |-> Len(vs.v[j])], along |-> k - 1]])

PGDimInputs ==
    {PGAbsent, PGScalar(0 - 1), PGScalar(maxDimension + 1)}
        \cup {PGScalar(d) : d \in 1..MaxDim}
PGMinInputs(d) == {PGAbsent, PGScalar(0), PGColumn([k \in 1..d |-> 0 - 600])}
PGMaxInputs(d) ==
    {PGAbsent, PGScalar(600), PGScalar(0), PGColumn([k \in 1..d |-> 1200])}
PGNInputs(d) ==
    {PGAbsent, PGScalar(11), PGScalar(1), PGScalar(0), PGColumn([k \in 1..d |-> 11]),
     PGColumn([k \in 1..d |-> IF k = 1 THEN 3 ELSE 5])}
PGDxInputs(d) ==
    {PGAbsent, PGScalar(60), PGScalar(0), PGColumn([k \in 1..d |-> 300])}
PGBdryInputs(d) ==
    {PGAbsent, PGScalar("addGhostPeriodic"),
     PGCell([k \in 1..d |-> "addGhostExtrapolate"])}
PGGridInputs ==
    UNION {LET d == IF dm.kind = "absent" \/ dm.v[1] < 1 THEN 1 ELSE dm.v[1]
           IN {[dim |-> dm, min |-> mn, max |-> mx, N |-> n, dx |-> dx, bdry |-> b,
                vs |-> PGAbsent, xs |-> PGAbsent, bdryData |-> PGAbsent,
                axis |-> PGAbsent, shape |-> PGAbsent] :
                  mn \in PGMinInputs(d), mx \in PGMaxInputs(d), n \in PGNInputs(d),
                  dx \in PGDxInputs(d), b \in PGBdryInputs(d)} :
           dm \in PGDimInputs}

\* gridOut = copy.copy(gridIn)
PGFrame(gridIn) ==
    [pc |-> "entry", gridIn |-> gridIn, gridOut |-> gridIn, err |-> "", warned |-> FALSE]
InitPG ==
    /\ SolverIdle
    /\ lf = lfIdle
    /\ \E gridIn \in PGGridInputs : pg = PGFrame(gridIn)
    /\ wn = wnIdle
    /\ pj = pjIdle

PGFail(msg) == pg' = [pg EXCEPT !.pc = "error", !.err = msg]
PGNext(g, pcNew) == pg' = [pg EXCEPT !.pc = pcNew, !.gridOut = g]
PGDimOf(g) == g.dim.v[1]
PGOk(val) == [e |-> "", val |-> val]
PGErr(msg) == [e |-> msg, val |-> PGAbsent]

\* A bound of the grid: a supplied column is kept, a supplied scalar is
\* replicated dim times, anything else is an error; a missing one gets the
\* default that the caller passes.
BoundField(g, f, default) ==
    IF PGHas(g, f)
    THEN IF ~isColumnLength(g[f], PGDimOf(g))
         THEN IF isscalar(g[f])
              THEN PGOk(Replicated(g[f], PGDimOf(g)))
              ELSE PGErr(f \o " field is not column vector of length dim or a scalar")
         ELSE PGOk(g[f])
    ELSE PGOk(Replicated(PGScalar(default), PGDimOf(g)))

PGDim ==
    /\ pg.pc = "entry"
    /\ IF PGHas(pg.gridOut, "dim")
       THEN IF PGDimOf(pg.gridOut) < 0
            THEN PGFail("Grid dimension must be positive")
            ELSE pg' = [pg EXCEPT !.pc = "bounds",
                                  !.warned = PGDimOf(pg.gridOut) > maxDimension]
       ELSE PGFail("Grid structure must contain dimension")
    /\ UNCHANGED <<solverVars, lf, wn, pj>>

\* The missing max is filled from defaultMin, as the code does.
PGBounds ==
    /\ pg.pc = "bounds"
    /\ LET g == pg.gridOut
           mn == BoundField(g, "min", defaultMin)
           mx == BoundField(g, "max", defaultMin)
       IN IF mn.e # "" THEN PGFail(mn.e)
          ELSE IF mx.e # "" THEN PGFail(mx.e)
          ELSE IF AnyLeq(mx.val, mn.val)
          THEN PGFail("max bound must be strictly greater than min bound in all dimensions")
          ELSE PGNext([g EXCEPT !.min = mn.val, !.max = mx.val], "counts")
    /\ UNCHANGED <<solverVars, lf, wn, pj>>

\* The N field: positive, and a column of length dim or a replicated scalar.
NField(g) ==
    IF ~PGHas(g, "N") THEN PGOk(g.N)
    ELSE IF AnyNonPositive(g.N)
    THEN PGErr("number of grid cells must be strictly positive")
    ELSE IF ~isColumnLength(g.N, PGDimOf(g))
    THEN IF isscalar(g.N)
         THEN PGOk(Replicated(g.N, PGDimOf(g)))
         ELSE PGErr("N field is not column vector of length dim or a scalar")
    ELSE PGOk(g.N)

\* N and dx.  The else of the dx check hangs on the column test, so a column
\* of length dim is the error case and a scalar is replicated; N is not
\* derived from a supplied dx.
PGCounts ==
    /\ pg.pc = "counts"
    /\ LET g == pg.gridOut
           n == NField(g)
           g1 == [g EXCEPT !.N = n.val]
           nDef == Replicated(PGScalar(defaultN), PGDimOf(g))
       IN IF n.e # "" THEN PGFail(n.e)
          ELSE IF PGHas(g1, "dx")
          THEN IF AnyNonPositive(g1.dx)
               THEN PGFail("grid cell size dx must be strictly positive")
               ELSE IF ~isColumnLength(g1.dx, PGDimOf(g1))
               THEN PGNext([g1 EXCEPT !.dx = IF isscalar(g1.dx)
                                               THEN Replicated(g1.dx, PGDimOf(g1))
                                               ELSE g1.dx], "nodes")
               ELSE PGFail("dx field is not column vector of length dim or a scalar")
          ELSE IF PGHas(g1, "N")
          THEN PGNext([g1 EXCEPT !.dx = DivideSpan(g1.max, g1.min, g1.N)], "nodes")
          ELSE PGNext([g1 EXCEPT !.N = nDef,
                                 !.dx = DivideSpan(g1.max, g1.min, nDef)], "nodes")
    /\ UNCHANGED <<solverVars, lf, wn, pj>>

\* vs by linspace over N (reading N when the bundle has none is an
\* AttributeError), the N/vs consistency check, and xs by meshgrid.
PGNodes ==
    /\ pg.pc = "nodes"
    /\ LET g == pg.gridOut
           vs == PGCell([k \in 1..PGDimOf(g) |->
                            linspace(g.min.v[k], g.max.v[k], g.N.v[k])])
       IN IF ~PGHas(g, "N") THEN PGFail("AttributeError: N")
          ELSE IF \E k \in 1..PGDimOf(g) : g.N.v[k] # Len(vs.v[k])
          THEN PGFail("Inconsistent grid size in dimension")
          ELSE PGNext([g EXCEPT !.vs = vs,
                                !.N = PGColumn([k \in 1..PGDimOf(g) |-> Len(vs.v[k])]),
                                !.xs = meshgrid(vs)], "bdry")
    /\ UNCHANGED <<solverVars, lf, wn, pj>>

\* bdry and bdryData.  The default branch calls ndarray.fill with a function,
\* which raises TypeError.
PGBdry ==
    /\ pg.pc = "bdry"
    /\ LET g == pg.gridOut
           dflt == PGCell([k \in 1..PGDimOf(g) |-> << >>])
       IN IF PGHas(g, "bdry")
          THEN IF g.bdry.kind \in {"cell", "column"}
               THEN IF ~isColumnLength(g.bdry, PGDimOf(g))
                    THEN PGFail("bdry field is not column cell vector of length dim")
                    ELSE PGNext([g EXCEPT !.bdryData = dflt], "shape")
               ELSE IF isscalar(g.bdry)
               THEN PGNext([g EXCEPT !.bdry = PGCell([k \in 1..PGDimOf(g) |-> g.bdry.v[1]]),
                                     !.bdryData = dflt], "shape")
               ELSE PGFail("bdry field is not a cell vector or a scalar")
          ELSE PGFail("TypeError: fill")
    /\ UNCHANGED <<solverVars, lf, wn, pj>>

\* The outcomes of writing the list [min[i], max[i]] of two 1-element arrays
\* into two entries of the axis row: the array library decides.
AxisAssignOutcomes == {"", "ValueError: axis"}
\* The axis row [min[0], max[0], min[1], max[1], ...]
AxisOf(g) ==
    PGColumn([k \in 1..(2 * PGDimOf(g)) |->
                 IF k % 2 = 1 THEN g.min.v[(k + 1) \div 2] ELSE g.max.v[k \div 2]])

\* axis, Nshape and shape, and the return.  N.squeeze() of a 1 x 1 array is
\* 0-dimensional and tuple() of it raises TypeError.
PGReturn ==
    /\ pg.pc = "shape"
    /\ LET g == pg.gridOut
           dim == PGDimOf(g)
       IN \E e \in IF dim \in {2, 3} THEN AxisAssignOutcomes ELSE {""} :
             IF e # "" THEN PGFail(e)
             ELSE IF dim = 1 THEN PGFail("TypeError: iteration over a 0-d array")
             ELSE PGNext([g EXCEPT !.axis = IF dim \in {2, 3} THEN AxisOf(g) ELSE PGCell(<< >>),
                                   !.shape = PGTuple(g.N.v)], "returned")
    /\ UNCHANGED <<solverVars, lf, wn, pj>>

NextPG == PGDim \/ PGBounds \/ PGCounts \/ PGNodes \/ PGBdry \/ PGReturn

SpecPG == InitPG /\ [][NextPG]_vars

(***************************************************************************)
(* Properties of processGrid                                               *)
(***************************************************************************)
PGCalled == pg.pc # "idle"
PGReturned == pg.pc = "returned"
PGSupplies(g, fs) == \A f \in {"min", "max", "N", "dx", "bdry"} : PGHas(g, f) <=> f \in fs
PGValidDim(g) == PGHas(g, "dim") /\ PGDimOf(g) >= 1
\* every entry of a supplied field is positive
PGPositive(a) == \A k \in 1..Len(a.v) : a.v[k] > 0
\* the value on axis k of a field supplied as a scalar or as a column
PGEntry(a, k) == IF a.kind = "scalar" THEN a.v[1] ELSE a.v[k]

\* C18: processGrid given a specification that supplies only dim returns a
\* grid with min[i] = 0, max[i] = 1, N[i] = 101 and the periodic boundary
\* operator on every axis i.
DefaultsStated ==
    (PGCalled /\ PGValidDim(pg.gridIn) /\ PGSupplies(pg.gridIn, {}))
        => /\ pg.pc # "error"
           /\ PGReturned =>
                 \A k \in 1..PGDimOf(pg.gridOut) :
                     /\ pg.gridOut.min.v[k] = defaultMin
                     /\ pg.gridOut.max.v[k] = defaultMax
                     /\ pg.gridOut.N.v[k] = defaultN
                     /\ pg.gridOut.bdry.v[k] = defaultBdry

\* C19: processGrid given dim, min, max and N (max above min, N positive) but
\* no dx returns dx[i] = (max[i] - min[i]) / (N[i] - 1) on every axis, vs[i]
\* of length N[i] running from min[i] to max[i], and xs arrays of shape
\* (N[0], ..., N[dim-1]).
DxFromNInput(g) ==
    /\ PGValidDim(g)
    /\ PGHas(g, "min") /\ PGHas(g, "max") /\ PGHas(g, "N") /\ ~PGHas(g, "dx")
    /\ PGPositive(g.N)
    /\ \A k \in 1..PGDimOf(g) : PGEntry(g.max, k) > PGEntry(g.min, k)
DxFromNStated ==
    (PGCalled /\ DxFromNInput(pg.gridIn))
        => /\ pg.pc # "error"
           /\ PGReturned =>
                 LET g == pg.gridOut
                     in == pg.gridIn
                 IN \A k \in 1..PGDimOf(g) :
                       /\ g.dx.v[k] * (PGEntry(in.N, k) - 1)
                              = PGEntry(in.max, k) - PGEntry(in.min, k)
                       /\ Len(g.vs.v[k]) = PGEntry(in.N, k)
                       /\ g.vs.v[k][1] = PGEntry(in.min, k)
                       /\ g.vs.v[k][Len(g.vs.v[k])] = PGEntry(in.max, k)
                       /\ g.xs.v[k].shape = [j \in 1..PGDimOf(g) |-> PGEntry(in.N, j)]

\* C20: processGrid given dim, min, max and a strictly positive dx (a scalar
\* or a column vector of length dim) but no N infers N from dx and returns a
\* complete grid on which dx[i] * (N[i] - 1) = max[i] - min[i] on every axis.
NFromDxInput(g) ==
    /\ PGValidDim(g)
    /\ PGHas(g, "min") /\ PGHas(g, "max") /\ PGHas(g, "dx") /\ ~PGHas(g, "N")
    /\ PGPositive(g.dx)
    /\ \A k \in 1..PGDimOf(g) : PGEntry(g.max, k) > PGEntry(g.min, k)
NFromDxStated ==
    (PGCalled /\ NFromDxInput(pg.gridIn))
        => /\ pg.pc # "error"
           /\ PGReturned =>
                 LET g == pg.gridOut
                 IN \A k \in 1..PGDimOf(g) :
                       /\ PGHas(g, "N")
                       /\ g.dx.v[k] * (g.N.v[k] - 1) = g.max.v[k] - g.min.v[k]

\* C21: processGrid given both N and dx that are inconsistent with min and
\* max (dx[i] * (N[i] - 1) differs from max[i] - min[i] on some axis i) fails
\* with a fatal error and returns no grid.
InconsistentInput(g) ==
    /\ PGValidDim(g)
    /\ PGHas(g, "min") /\ PGHas(g, "max") /\ PGHas(g, "N") /\ PGHas(g, "dx")
    /\ PGPositive(g.N) /\ PGPositive(g.dx)
    /\ \A k \in 1..PGDimOf(g) : PGEntry(g.max, k) > PGEntry(g.min, k)
    /\ \E k \in 1..PGDimOf(g) :
          PGEntry(g.dx, k) * (PGEntry(g.N, k) - 1) # PGEntry(g.max, k) - PGEntry(g.min, k)
InconsistencyFatal ==
    (PGCalled /\ InconsistentInput(pg.gridIn)) => ~PGReturned

\* C22: every grid returned by processGrid has N[i] >= 2 and dx[i] > 0 on
\* every axis i (a specification with some N[i] < 2 or some dx[i] <= 0 is
\* rejected with a fatal error), while a dim greater than 5 only produces a
\* warning and processing continues.
CountsValidated ==
    /\ PGReturned =>
          \A k \in 1..PGDimOf(pg.gridOut) :
              /\ pg.gridOut.N.v[k] >= 2
              /\ pg.gridOut.dx.v[k] > 0
    /\ (PGCalled /\ PGValidDim(pg.gridIn) /\ PGDimOf(pg.gridIn) > maxDimension
           /\ pg.pc \notin {"entry", "error"}) => pg.warned

(***************************************************************************)
(* upwindFirstWENO5a(grid, data, dim, generateAll) and weightWENO(d, s, w, *)
(* epsilon) (SpatialDerivative/upwind_first_weno5a.py).  A fraction is a   *)
(* record [n, d] of integers with d # 0; the linear weights are in tenths. *)
(* The ENO candidates come from upwindFirstENO3aHelper, which is not part  *)
(* of the sources: a call on an axis of the grid yields three candidates   *)
(* per cell and side.                                                      *)
(***************************************************************************)
MaxCells == 2

weightL == <<1, 6, 3>>
weightR == <<3, 6, 1>>

RECURSIVE Gcd(_, _)
Gcd(a, b) == IF b = 0 THEN a ELSE Gcd(b, a % b)
\* fractions are kept in lowest terms
Frac(n, d) ==
    LET g == Gcd(Abs(n), Abs(d))
    IN IF g = 0 THEN [n |-> n, d |-> d] ELSE [n |-> n \div g, d |-> d \div g]
FracAdd(a, b) == Frac(a.n * b.d + b.n * a.d, a.d * b.d)
FracMul(a, b) == Frac(a.n * b.n, a.d * b.d)
FracDiv(a, b) == Frac(a.n * b.d, a.d * b.n)
FracPos(a) == a.n * a.d > 0
FracLeq(a, b) == IF a.d * b.d > 0 THEN a.n * b.d <= b.n * a.d ELSE a.n * b.d >= b.n * a.d
FracEq(a, b) == a.n * b.d = b.n * a.d

\* w[k] / (s[k] + epsilon)**2; the 10 is the unit of the weights
alphaWENO(w, s, epsilon, k) == Frac(w[k], 10 * (s[k] + epsilon) * (s[k] + epsilon))
\* lines 176-181; e is the ZeroDivisionError of a zero s[k] + epsilon
weightWENO(d, s, w, epsilon) ==
    IF \E k \in 1..3 : s[k] + epsilon = 0
    THEN [e |-> "ZeroDivisionError", deriv |-> Frac(0, 1)]
    ELSE LET alpha1 == alphaWENO(w, s, epsilon, 1)
             alpha2 == alphaWENO(w, s, epsilon, 2)
             alpha3 == alphaWENO(w, s, epsilon, 3)
             denominator == FracAdd(FracAdd(alpha1, alpha2), alpha3)
             numerator == FracAdd(FracAdd(FracMul(alpha1, Frac(d[1], 1)),
                                          FracMul(alpha2, Frac(d[2], 1))),
                                  FracMul(alpha3, Frac(d[3], 1)))
         IN [e |-> "", deriv |-> FracDiv(numerator, denominator)]
\* omega_k = alpha_k / (alpha_1 + alpha_2 + alpha_3)
omegaWENO(w, s, epsilon, k) ==
    FracDiv(alphaWENO(w, s, epsilon, k),
            FracAdd(FracAdd(alphaWENO(w, s, epsilon, 1), alphaWENO(w, s, epsilon, 2)),
                    alphaWENO(w, s, epsilon, 3)))

\* Inputs.  The smoothness estimates are sums of squares and epsilon is
\* positive at the call sites (lines 95-111, 138-150).
ENOCandidates == {<<0, 0, 0>>, <<0 - 1, 0, 1>>, <<1, 1, 0>>, <<1, 0 - 1, 1>>}
SmoothInputs == {<<0, 0, 0>>, <<0, 1, 2>>, <<2, 0, 1>>, <<1, 1, 1>>}
EpsilonInputs == {1, 2}
WENOGridDims == 1..2
WENODimInputs(gd) == (0 - 1)..(gd + 1)

WENOFrame(gd, n, dim, generateAll) ==
    [fn |-> "upwindFirstWENO5a", pc |-> "entry", err |-> "", gridDim |-> gd, n |-> n,
     dim |-> dim, generateAll |-> generateAll,
     dL |-> << >>, dR |-> << >>, derivL |-> << >>, derivR |-> << >>]
WeightFrame(d, sm, w, epsilon) ==
    [fn |-> "weightWENO", pc |-> "entry", err |-> "", d |-> d, s |-> sm, w |-> w,
     epsilon |-> epsilon, deriv |-> Frac(0, 1)]

InitWENO ==
    /\ SolverIdle
    /\ lf = lfIdle
    /\ pg = pgIdle
    /\ pj = pjIdle
    /\ \/ \E gd \in WENOGridDims, n \in 1..MaxCells, generateAll \in BOOLEAN :
             \E dim \in WENODimInputs(gd) : wn = WENOFrame(gd, n, dim, generateAll)
       \/ \E d \in ENOCandidates, sm \in SmoothInputs, w \in {weightL, weightR},
             epsilon \in EpsilonInputs : wn = WeightFrame(d, sm, w, epsilon)

WENOFail(msg) == wn' = [wn EXCEPT !.pc = "error", !.err = msg]

\* lines 47-48: the dim check
WENOEnter ==
    /\ wn.fn = "upwindFirstWENO5a" /\ wn.pc = "entry"
    /\ IF wn.dim < 0 \/ wn.dim > wn.gridDim
       THEN WENOFail("Illegal dim parameter")
       ELSE wn' = [wn EXCEPT !.pc = "eno"]
    /\ UNCHANGED <<solverVars, lf, pg, pj>>

\* lines 62-69: the helper call.  The helper has no axis grid.dim to work on.
WENOCandidates ==
    /\ wn.fn = "upwindFirstWENO5a" /\ wn.pc = "eno"
    /\ IF wn.dim >= wn.gridDim
       THEN WENOFail("IndexError: axis")
       ELSE \E dL \in [1..wn.n -> ENOCandidates], dR \in [1..wn.n -> ENOCandidates] :
               IF wn.generateAll
               THEN wn' = [wn EXCEPT !.pc = "returned", !.dL = dL, !.dR = dR,
                                     !.derivL = dL, !.derivR = dR]
               ELSE wn' = [wn EXCEPT !.pc = "smooth", !.dL = dL, !.dR = dR]
    /\ UNCHANGED <<solverVars, lf, pg, pj>>

\* The exceptions of lines 78-132.  indices is a cell of grid.dim entries
\* that is indexed by the five stencil terms and then by dim (line 91), its
\* entries are used as arrays (.flatten()) to index D1 (line 95), and line
\* 132 calls the array smooth[i]: whatever cell() returns, one of them is
\* raised before the weights are applied.
SmoothIndexErrors == {"IndexError", "TypeError", "AttributeError"}

\* lines 78-132: index vectors and smoothness estimates
WENOSmooth ==
    /\ wn.fn = "upwindFirstWENO5a" /\ wn.pc = "smooth"
    /\ \E e \in SmoothIndexErrors : WENOFail(e)
    /\ UNCHANGED <<solverVars, lf, pg, pj>>

\* a call of weightWENO
WeightWENOCall ==
    /\ wn.fn = "weightWENO" /\ wn.pc = "entry"
    /\ LET r == weightWENO(wn.d, wn.s, wn.w, wn.epsilon)
       IN IF r.e # "" THEN WENOFail(r.e)
          ELSE wn' = [wn EXCEPT !.pc = "returned", !.deriv = r.deriv]
    /\ UNCHANGED <<solverVars, lf, pg, pj>>

NextWENO == WENOEnter \/ WENOCandidates \/ WENOSmooth \/ WeightWENOCall

SpecWENO == InitWENO /\ [][NextWENO]_vars

\* C23: upwindFirstWENO5a (generateAll false) returns, for each cell and each
\* side, the combination sum_k omega_k * d_k of the three ENO candidates with
\* omega_k = alpha_k / (alpha_1 + alpha_2 + alpha_3), alpha_k = w_k / (s_k +
\* epsilon)^2 and the linear weights (0.1, 0.6, 0.3) / (0.3, 0.6, 0.1); s_k +
\* epsilon > 0, so there is no division by zero, every omega_k is positive,
\* the omega_k sum to 1 and each output lies between the smallest and the
\* largest of its three candidates.
WeightsConvex ==
    (wn.fn = "weightWENO" /\ wn.pc # "entry")
        => /\ wn.pc = "returned"
           /\ \A k \in 1..3 : FracPos(omegaWENO(wn.w, wn.s, wn.epsilon, k))
           /\ FracEq(FracAdd(FracAdd(omegaWENO(wn.w, wn.s, wn.epsilon, 1),
                                     omegaWENO(wn.w, wn.s, wn.epsilon, 2)),
                             omegaWENO(wn.w, wn.s, wn.epsilon, 3)), Frac(1, 1))
           /\ FracEq(wn.deriv,
                     FracAdd(FracAdd(FracMul(omegaWENO(wn.w, wn.s, wn.epsilon, 1), Frac(wn.d[1], 1)),
                                     FracMul(omegaWENO(wn.w, wn.s, wn.epsilon, 2), Frac(wn.d[2], 1))),
                             FracMul(omegaWENO(wn.w, wn.s, wn.epsilon, 3), Frac(wn.d[3], 1))))
           /\ \E k \in 1..3 : FracLeq(Frac(wn.d[k], 1), wn.deriv)
           /\ \E k \in 1..3 : FracLeq(wn.deriv, Frac(wn.d[k], 1))
WENO5aStated ==
    /\ WeightsConvex
    /\ (wn.fn = "upwindFirstWENO5a" /\ ~wn.generateAll
           /\ wn.dim \in 0..(wn.gridDim - 1)) => wn.pc # "error"

\* C30: upwindFirstWENO5a raises the 'Illegal dim parameter' error, before
\* computing any derivative, for every dim outside 0 .. grid.dim - 1, and
\* accepts every dim inside that range.
IllegalDimStated ==
    (wn.fn = "upwindFirstWENO5a" /\ wn.pc # "entry")
        => (wn.dim \notin 0..(wn.gridDim - 1)
               <=> (wn.pc = "error" /\ wn.err = "Illegal dim parameter"))

(***************************************************************************)
(* proj(g, data, dimsToRemove, xs, NOut, process) and projSingle           *)
(* (ValueFuncs/data_proj.py), for data of the grid's dimension, xs None,   *)
(* 'min' or 'max' and NOut None.  An array of nd axes is a sequence of     *)
(* arrays of nd - 1 axes, and an array of no axes is a number; axis k of   *)
(* the code is nesting level k.                                            *)
(***************************************************************************)
MaxProjLen == 2

RECURSIVE EachWise(_, _, _, _)
\* element-wise minimum (op "min") or maximum of two arrays of nd axes
EachWise(a, b, nd, op) ==
    IF nd = 0 THEN (IF op = "min" THEN Min2(a, b) ELSE Max2(a, b))
    ELSE [k \in 1..Len(a) |-> EachWise(a[k], b[k], nd - 1, op)]
RECURSIVE FoldFirst(_, _, _, _)
\* the entries a[0], ..., a[n-1] along the first axis combined element-wise
FoldFirst(a, n, nd, op) ==
    IF n = 1 THEN a[1] ELSE EachWise(FoldFirst(a, n - 1, nd, op), a[n], nd - 1, op)
RECURSIVE ReduceAxis(_, _, _, _)
\* cp.amin(a, axis) / cp.amax(a, axis) of an array of nd axes, axis < nd
ReduceAxis(a, axis, nd, op) ==
    IF axis = 0 THEN FoldFirst(a, Len(a), nd, op)
    ELSE [k \in 1..Len(a) |-> ReduceAxis(a[k], axis - 1, nd - 1, op)]
amin(a, axis, nd) == ReduceAxis(a, axis, nd, "min")
amax(a, axis, nd) == ReduceAxis(a, axis, nd, "max")
RECURSIVE AnyNonZero(_, _)
\* cp.any(a)
AnyNonZero(a, nd) ==
    IF nd = 0 THEN a # 0 ELSE \E k \in 1..Len(a) : AnyNonZero(a[k], nd - 1)
RECURSIVE ShapeOf(_, _)
\* a.shape
ShapeOf(a, nd) == IF nd = 0 THEN << >> ELSE <<Len(a)>> \o ShapeOf(a[1], nd - 1)
\* a.T of an array of one or two axes
TransposeOf(a, nd) ==
    IF nd < 2 THEN a
    ELSE [j \in 1..Len(a[1]) |-> [k \in 1..Len(a) |-> a[k][j]]]

\* cp.logical_not(dims), cp.count_nonzero, cp.nonzero
KeptAxes(dims) == {k \in 1..Len(dims) : dims[k] = 0}
RemovedAxes(dims) == {k \in 1..Len(dims) : dims[k] # 0}
RECURSIVE SelectKept(_, _)
\* a[cp.ix_(cp.logical_not(dims))]: the entries of a on the kept axes, in order
SelectKept(a, dims) ==
    IF Len(dims) = 0 THEN << >>
    ELSE (IF Head(dims) = 0 THEN <<Head(a)>> ELSE << >>) \o SelectKept(Tail(a), Tail(dims))

\* Inputs: a grid of 2 or 3 axes whose axes differ in min, max and bdry, data
\* of the grid's shape, dimsToRemove one shorter, as long and one longer than
\* the grid has axes, xs and process.  Of the grid only the fields that proj
\* reads on this path are given.
PJShapes ==
    {<<a, b>> : a, b \in 1..MaxProjLen} \cup {<<MaxProjLen, MaxProjLen, MaxProjLen>>}
PJGridFor(sh) ==
    [dim |-> PGScalar(Len(sh)),
     min |-> PGColumn([k \in 1..Len(sh) |-> 0 - 600 * (k - 1)]),
     max |-> PGColumn([k \in 1..Len(sh) |-> 600 * k]),
     N |-> PGColumn(sh), dx |-> PGAbsent,
     bdry |-> PGCell([k \in 1..Len(sh) |->
                         IF k % 2 = 1 THEN "addGhostPeriodic" ELSE "addGhostExtrapolate"]),
     vs |-> PGAbsent, xs |-> PGAbsent, bdryData |-> PGAbsent,
     axis |-> PGAbsent, shape |-> PGAbsent]
PJDataInputs(sh) ==
    IF Len(sh) = 2
    THEN [1..sh[1] -> [1..sh[2] -> Vals]]
    ELSE [1..sh[1] -> [1..sh[2] -> [1..sh[3] -> {0 - 1, 1}]]]
             \cup {[a \in 1..sh[1] |-> [b \in 1..sh[2] |-> [c \in 1..sh[3] |-> 0]]]}
PJDimsInputs(d) == UNION {[1..len -> {0, 1}] : len \in (d - 1)..(d + 1)}
PJXsInputs == {PyNone, "min", "max"}

PJArray(v, nd) == [kind |-> "array", nd |-> nd, v |-> v]
PJNone == [kind |-> "None", nd |-> 0, v |-> << >>]
PJObject(v) == [kind |-> "object", nd |-> 1, v |-> v]

PJFrame(sh, dataIn, dims, xs, process) ==
    [pc |-> "entry", err |-> "", g |-> PJGridFor(sh), data |-> dataIn, nd |-> Len(sh),
     dimsToRemove |-> dims, xs |-> xs, process |-> process,
     gOut |-> PJGridFor(<< >>), single |-> PJNone, dataOut |-> PJNone,
     i |-> 0, list |-> << >>]

InitProj ==
    /\ SolverIdle
    /\ lf = lfIdle
    /\ pg = pgIdle
    /\ wn = wnIdle
    /\ \E sh \in PJShapes, xs \in PJXsInputs, process \in BOOLEAN :
          \E dataIn \in PJDataInputs(sh), dims \in PJDimsInputs(Len(sh)) :
             pj = PJFrame(sh, dataIn, dims, xs, process)

PJFail(msg) == pj' = [pj EXCEPT !.pc = "error", !.err = msg]

\* proj lines 46-72
PJEnter ==
    /\ pj.pc = "entry"
    /\ IF Len(pj.dimsToRemove) # PGDimOf(pj.g)
       THEN PJFail("Dimensions are inconsistent!")
       ELSE IF Cardinality(KeptAxes(pj.dimsToRemove)) = PGDimOf(pj.g)
       THEN pj' = [pj EXCEPT !.pc = "returned", !.gOut = pj.g,
                             !.dataOut = PJArray(pj.data, pj.nd)]
       ELSE pj' = [pj EXCEPT !.pc = "grid",
                             !.xs = IF pj.xs = PyNone THEN "min" ELSE pj.xs]
    /\ UNCHANGED <<solverVars, lf, pg, wn>>

\* projSingle lines 132-146; NOut is g.N on the kept axes (line 65)
PJOutGrid(g, dims) ==
    [PJGridFor(<< >>) EXCEPT
        !.dim = PGScalar(Cardinality(KeptAxes(dims))),
        !.min = PGColumn(SelectKept(g.min.v, dims)),
        !.max = PGColumn(SelectKept(g.max.v, dims)),
        !.bdry = PGColumn(SelectKept(g.bdry.v, dims)),
        !.N = PGColumn(SelectKept(g.N.v, dims))]

\* projSingle lines 128-151 of the call at line 76: the output grid, handed
\* to processGrid when process is set
PJGrid ==
    /\ pj.pc = "grid"
    /\ IF pj.process
       THEN /\ pj' = [pj EXCEPT !.pc = "processGrid"]
            /\ pg' = PGFrame(PJOutGrid(pj.g, pj.dimsToRemove))
       ELSE /\ pj' = [pj EXCEPT !.pc = "project",
                                !.gOut = PJOutGrid(pj.g, pj.dimsToRemove)]
            /\ UNCHANGED pg
    /\ UNCHANGED <<solverVars, lf, wn>>

\* processGrid has returned or raised
PJGridDone ==
    /\ pj.pc = "processGrid"
    /\ pg.pc \in {"returned", "error"}
    /\ IF pg.pc = "error" THEN PJFail(pg.err)
       ELSE pj' = [pj EXCEPT !.pc = "project", !.gOut = pg.gridOut]
    /\ UNCHANGED <<solverVars, lf, pg, wn>>

\* projSingle lines 154-171 for data of nd axes: None for data without a
\* nonzero entry; otherwise the loop assigns cp.amin(data, axis) of the whole
\* data for axis = 0, ..., r - 1 in turn (r the number of removed
\* dimensions), so an axis the data does not have is an AxisError and the
\* result is the reduction along axis r - 1 alone.
projSingleData(dataIn, nd, dims, xs) ==
    LET r == Cardinality(RemovedAxes(dims))
    IN IF ~AnyNonZero(dataIn, nd) THEN [e |-> "", out |-> PJNone]
       ELSE IF r - 1 >= nd THEN [e |-> "AxisError", out |-> PJNone]
       ELSE [e |-> "",
             out |-> PJArray(IF xs = "min" THEN amin(dataIn, r - 1, nd)
                                           ELSE amax(dataIn, r - 1, nd), nd - 1)]

\* the projSingle call of line 76, past the grid
PJProject ==
    /\ pj.pc = "project"
    /\ LET r == projSingleData(pj.data, pj.nd, pj.dimsToRemove, pj.xs)
       IN IF r.e # "" THEN PJFail(r.e)
          ELSE pj' = [pj EXCEPT !.pc = "loop", !.single = r.out, !.i = 0, !.list = << >>]
    /\ UNCHANGED <<solverVars, lf, pg, wn>>

\* numTimeSteps = data.shape[dataDims-1] (line 81)
numTimeSteps(dataIn, nd) == ShapeOf(dataIn, nd)[nd]

\* lines 84-88: one pass of the loop, which runs also for data of the grid's
\* dimension: projSingle on data[i, ...].  Its processGrid call repeats the
\* one already made.
PJLoop ==
    /\ pj.pc = "loop"
    /\ pj.i < numTimeSteps(pj.data, pj.nd)
    /\ IF pj.i >= Len(pj.data) THEN PJFail("IndexError")
       ELSE LET r == projSingleData(PyAt(pj.data, pj.i), pj.nd - 1, pj.dimsToRemove, pj.xs)
            IN IF r.e # "" THEN PJFail(r.e)
               ELSE pj' = [pj EXCEPT !.i = pj.i + 1, !.list = Append(pj.list, r.out)]
    /\ UNCHANGED <<solverVars, lf, pg, wn>>

\* cp.asarray of a list that holds None: the array library either refuses it
\* or builds an array of objects
AsarrayOfNone == {"", "ValueError: asarray"}

\* lines 90-92: dataOut = cp.asarray(dataOut).T
PJReturn ==
    /\ pj.pc = "loop"
    /\ pj.i = numTimeSteps(pj.data, pj.nd)
    /\ IF \E k \in 1..Len(pj.list) : pj.list[k].kind = "None"
       THEN \E e \in AsarrayOfNone :
               IF e # "" THEN PJFail(e)
               ELSE pj' = [pj EXCEPT !.pc = "returned", !.dataOut = PJObject(pj.list)]
       ELSE pj' = [pj EXCEPT !.pc = "returned",
                             !.dataOut = PJArray(TransposeOf([k \in 1..Len(pj.list) |-> pj.list[k].v],
                                                             pj.nd - 1), pj.nd - 1)]
    /\ UNCHANGED <<solverVars, lf, pg, wn>>

NextProj ==
    \/ PJEnter \/ PJGrid \/ PJGridDone \/ PJProject \/ PJLoop \/ PJReturn
    \/ PGDim \/ PGBounds \/ PGCounts \/ PGNodes \/ PGBdry \/ PGReturn

SpecProj == InitProj /\ [][NextProj]_vars

RECURSIVE ReduceRemoved(_, _, _, _, _)
\* the minimum (maximum) of the array a of nd axes over all removed
\* dimensions among the first k, taken from the last one to the first
ReduceRemoved(a, nd, dims, k, op) ==
    IF k = 0 THEN a
    ELSE IF dims[k] # 0
         THEN ReduceRemoved(ReduceAxis(a, k - 1, nd, op), nd - 1, dims, k - 1, op)
         ELSE ReduceRemoved(a, nd, dims, k - 1, op)

\* C28: proj(g, data, dimsToRemove) with xs 'min' (the default when xs is not
\* given) and data of the grid's dimension returns the element-wise minimum
\* of data over all removed dimensions together (the maximum for xs 'max'),
\* on an output grid whose dim is the number of kept dimensions and whose
\* min, max, N and bdry are those of the kept axes in their original order;
\* when no dimension is removed it returns g and data unchanged, and when
\* len(dimsToRemove) differs from g.dim it raises an error.
ProjStated ==
    pj.pc \notin {"idle", "entry"} =>
        LET dims == pj.dimsToRemove
            kept == Cardinality(KeptAxes(dims))
            expected == ReduceRemoved(pj.data, pj.nd, dims, Len(dims),
                                      IF pj.xs = "max" THEN "max" ELSE "min")
        IN IF Len(dims) # PGDimOf(pj.g) THEN pj.pc = "error"
           ELSE IF kept = PGDimOf(pj.g)
           THEN pj.pc = "returned" /\ pj.gOut = pj.g /\ pj.dataOut = PJArray(pj.data, pj.nd)
           ELSE /\ pj.pc # "error"
                /\ pj.pc = "returned" =>
                      /\ PGDimOf(pj.gOut) = kept
                      /\ pj.gOut.min.v = SelectKept(pj.g.min.v, dims)
                      /\ pj.gOut.max.v = SelectKept(pj.g.max.v, dims)
                      /\ pj.gOut.N.v = SelectKept(pj.g.N.v, dims)
                      /\ pj.gOut.bdry.v = SelectKept(pj.g.bdry.v, dims)
                      /\ pj.dataOut.kind = "array"
                      /\ pj.dataOut.nd = kept
                      /\ ShapeOf(pj.dataOut.v, kept) = ShapeOf(expected, kept)
                      /\ pj.dataOut.v = expected

(***************************************************************************)
(* Further properties of HJIPDE_solve                                      *)
(***************************************************************************)
\* C24: when compMethod is empty or None, HJIPDE_solve behaves exactly as
\* with compMethod 'minVWithV0', the documented default: after each accepted
\* step y becomes the element-wise minimum of y and the original data (data0
\* as the driver holds it).
DefaultIsWithV0 ==
    (args.compMethod \in {PyNone, ""} /\ Stepped /\ ~KeneMode(args.extraArgs)
        /\ pc # "error") =>
        yComb = MinField(yInt, MaskedData0)

\* discountFactor * y + (1 - discountFactor) * l
JaimeUpdate(yv, f, l) == [c \in 1..Len(yv) |-> f * yv[c] + (1 - f) * l[c]]
DiscountSet(ea) == ea.discount.hasFactor /\ PyTruthy(ea.discount.factor)

\* C27: when extraArgs.discountFactor is set and discountMode is 'Jaime' or
\* absent, after the compMethod combinator of each accepted step y becomes
\* discountFactor * y + (1 - discountFactor) * l, where l is the target
\* function if one is supplied and the initial value function otherwise; with
\* discountMode 'Kene' this update is not applied and the shift-discount-
\* combine update with the target is applied instead.
JaimeDiscountStated ==
    (Stepped /\ DiscountSet(args.extraArgs)) =>
        LET ea == args.extraArgs
            r == CompMethodStage(compMethod, ea, yInt, yLast, data0, i)
            l == IF ea.targetFunction.present THEN InputSlice(ea.targetFunction, i)
                 ELSE MaskedData0
        IN IF KeneMode(ea)
           THEN (ea.targetFunction.present /\ IsWithL(compMethod)) =>
                    /\ pc # "error"
                    /\ yComb = KeneStage(compMethod, ea, yInt).y
           ELSE r.e = "" =>
                    /\ pc # "error"
                    /\ yComb = JaimeUpdate(r.y, ea.discount.factor, l)

\* the slice the last completed macro-step stored
LastSlice == IF keepLast THEN data ELSE PyAt(data, i - 1)
StopInitOnly(ea) == ea.stop.stopInit.present /\ ~StopConvergeOf(ea)

\* C25: with extraArgs.stopInit the solve stops at the first macro-step i
\* whose value at the stopInit state is <= 0 and not NaN: stoptau = tau[i],
\* no further macro-step runs, tau is returned truncated to tau[0..i], and in
\* the default storage data holds exactly the slices 0..i (slice 0 the
\* initial value function, slice i the one computed at stoptau).
StopInitStated ==
    /\ (StopInitOnly(extraArgs) /\ pc = "macro" /\ i > 1) =>
           ~StopInitHit(extraArgs, LastSlice)
    /\ (StopInitOnly(extraArgs) /\ extraOuts.hasStoptau) =>
           /\ pc \in {"break", "done"}
           /\ StopInitHit(extraArgs, y)
           /\ extraOuts.stoptau = PyAt(args.tau, i)
           /\ tau = SubSeq(args.tau, 1, i + 1)
           /\ DefaultStorage =>
                  /\ Len(data) = i + 1
                  /\ PyAt(data, 0) = data0
                  /\ PyAt(data, i) = y

\* a macro-step ends with a stored slice whose change is below the threshold
ConvergenceEvent ==
    /\ pc = "inner" /\ pc' # "inner"
    /\ ~(tNow < PyAt(tau, i) - small)
    /\ CanReshape(y, args.gridN)
    /\ StopConvergeOf(extraArgs)
    /\ change' # Unbound /\ change' < ConvergeThresholdOf(extraArgs)
AnnealNamed(ea) == ea.stop.discountAnneal \in {"soft", "hard", AnnealOne}
FactorSet(ea) == ea.discount.hasFactor /\ DiscountFactorTruthy(ea.discount)

\* C26: with stopConverge true, a discountFactor different from 1 and
\* discountAnneal 'soft', 'hard' or 1, a convergence event never stops the
\* solve: it halves 1 - discountFactor (snapped to 0 below 0.00005) for
\* 'soft' and sets discountFactor to 1 otherwise, so that discountFactor
\* grows strictly and never exceeds 1; once discountFactor is 1 a
\* convergence event stops the solve with extraOuts.stoptau = tau[i].
AnnealStated ==
    [][ConvergenceEvent /\ FactorSet(extraArgs) /\ AnnealNamed(extraArgs) =>
          IF ~DiscountFactorIsOne(extraArgs.discount)
          THEN /\ pc' = "macro" /\ i' = i + 1
               /\ ~extraOuts'.hasStoptau
               /\ tau' = tau
               /\ OneMinusFactor(extraArgs'.discount) >= 0
               /\ OneMinusFactor(extraArgs'.discount) < OneMinusFactor(extraArgs.discount)
               /\ IF extraArgs.stop.discountAnneal = "soft"
                     /\ OneMinusFactor(extraArgs.discount) >= 2 * AnnealSnap
                  THEN 2 * OneMinusFactor(extraArgs'.discount)
                           = OneMinusFactor(extraArgs.discount)
                  ELSE OneMinusFactor(extraArgs'.discount) = 0
          ELSE /\ pc' = "break"
               /\ extraOuts' = StoppedAt(tau, i)
               /\ tau' = SubSeq(tau, 1, i + 1)]_vars

(***************************************************************************)
(* The inner loop of HJIPDE_solve, lines 602-617.  The loop is sequential  *)
(* code: while its condition holds the next integrator call is made, and   *)
(* when it fails the statements after the loop run.  The calls explored    *)
(* pass compMethod 'set' and the storage flags, nothing else.              *)
(***************************************************************************)
LoopInit ==
    /\ Init
    /\ args.compMethod = "set"
    /\ args.data0 = PeakField(args.gridN)
    /\ args.schemeData = NoSchemeFields
    /\ \E fl \in FlagInputs :
         args.extraArgs = WithFlags([obstacleFunction |-> NoArray,
                                     targetFunction |-> NoArray,
                                     discount |-> NoDiscount], fl)
SpecLoop ==
    /\ LoopInit /\ [][Next]_vars
    /\ WF_vars(InnerStep) /\ WF_vars(InnerStepFails) /\ WF_vars(MacroEnd)

MacroGap == PyAt(tau, i) - PyAt(tau, i - 1)
InLoop == pc = "inner"
LoopExited == pc = "inner" /\ ~(tNow < PyAt(tau, i) - small)
\* the least n with n * 0.8 * b >= gap - 1e-4 (times in units of 1e-4)
EnoughCalls(n, b, gap) == 8 * b * n >= 10 * (gap - 1)

\* C29: in a macro-step with tau[i] - tau[i-1] > 1e-4 the inner loop ends
\* after finitely many single-step integrator calls; tNow never passes
\* tau[i] and on exit tau[i] - 1e-4 <= tNow; when every call reported
\* stepBound = b at least ceil((tau[i] - tau[i-1] - 1e-4) / (0.8 * b)) calls
\* were made, which is 125 calls for b = 0.01 over a unit interval.
InnerLoopTerminates ==
    /\ []((InLoop /\ MacroGap > 1) => tNow <= PyAt(tau, i))
    /\ []((LoopExited /\ MacroGap > 1) =>
              /\ PyAt(tau, i) - 1 <= tNow
              /\ \A b \in StepBounds : reported = {b} => EnoughCalls(nSteps, b, MacroGap))
    /\ [](EnoughCalls(125, 100, 10000) /\ ~EnoughCalls(124, 100, 10000))
    /\ ((InLoop /\ MacroGap > 1) ~> (LoopExited \/ pc = "error"))
\* a macro-step of 8e-4 left after two calls that both reported 5e-4
InnerLoopWitness ==
    /\ LoopExited /\ MacroGap = 8
    /\ nSteps = 2 /\ reported = {5}
    /\ tNow = PyAt(tau, i)

====
